---- MODULE Spec2Model ----
(***************************************************************************)
(* Request pipeline of the AI business agent backend: bearer-credential    *)
(* verification, the role check, the relational and document stores, the   *)
(* generation gateway and the deterministic analytics.                     *)
(***************************************************************************)
EXTENDS Integers, Sequences, FiniteSets, TLC

VARIABLES
    mounted,    \* the router whose endpoints this run exercises
    now,        \* the stores' clock (datetime.utcnow), one tick per commit
    db,         \* the relational store: table name -> (id -> row)
    seq,        \* the relational store: table name -> next serial id
    docs,       \* the document store: collection content_generation
    resp,       \* the last request and its response
    authIn,     \* AuthService.check_permissions under test: the arguments
    authOut,    \* AuthService.check_permissions under test: the result
    forecast,   \* AIService.analyze_financial_data under test: the result
    recommendations, \* AIService.generate_recommendations under test: the result
    sessions,   \* two update requests in flight on one record, step by step
    chain       \* the AIService one worker process shares, and its last call

vars == <<mounted, now, db, seq, docs, resp, authIn, authOut, forecast, recommendations,
         sessions, chain>>

storeVars == <<db, seq, docs>>
authVars == <<authIn, authOut>>
analyticsVars == <<forecast, recommendations>>
processVars == <<sessions, chain>>

\* The request is served by the mounted router; a request changes neither the
\* mounting nor the functions under test.
Mounted(router) == mounted = router /\ UNCHANGED <<mounted, authVars, analyticsVars, processVars>>

None == "None"

\* No update request in flight, and an AIService nobody has called.
NoSessions == <<>>
NoChain == [memory |-> <<>>, request |-> <<>>, loaded |-> <<>>, sent |-> <<>>]

\* Commits one run performs on top of the rows the stores start with.
MaxCommits == 1

\* Row identifiers requests name: the stored rows' and one that is unknown.
Ids == 1 .. 2

-----------------------------------------------------------------------------
(* Users and bearer credentials                                            *)

Roles == {"user", "manager", "sales", "marketing", "support", "admin"}

\* Table users, keyed by email.
Users ==
    [ mgr   |-> [id |-> 1, email |-> "mgr",   role |-> "manager",   is_superuser |-> FALSE, is_active |-> TRUE],
      sal   |-> [id |-> 2, email |-> "sal",   role |-> "sales",     is_superuser |-> FALSE, is_active |-> TRUE],
      mkt   |-> [id |-> 3, email |-> "mkt",   role |-> "marketing", is_superuser |-> FALSE, is_active |-> TRUE],
      sup   |-> [id |-> 4, email |-> "sup",   role |-> "support",   is_superuser |-> FALSE, is_active |-> TRUE],
      adm   |-> [id |-> 5, email |-> "adm",   role |-> "admin",     is_superuser |-> FALSE, is_active |-> TRUE],
      usr   |-> [id |-> 6, email |-> "usr",   role |-> "user",      is_superuser |-> FALSE, is_active |-> TRUE],
      root  |-> [id |-> 7, email |-> "root",  role |-> "user",      is_superuser |-> TRUE,  is_active |-> TRUE],
      gone  |-> [id |-> 8, email |-> "gone",  role |-> "manager",   is_superuser |-> FALSE, is_active |-> FALSE] ]

Emails == DOMAIN Users

\* A bearer credential: absent, or a signed token with an optional subject.
NoToken == [present |-> FALSE, signed |-> FALSE, expired |-> FALSE, sub |-> None]

Tokens ==
    {NoToken} \cup
    [present : {TRUE}, signed : BOOLEAN, expired : BOOLEAN,
     sub : Emails \cup {None, "ghost"}]

\* create_access_token({"sub": email}): a signed, unexpired token.
create_access_token(email) ==
    [present |-> TRUE, signed |-> TRUE, expired |-> FALSE, sub |-> email]

\* The role each router's guarded endpoints require.
RequiredRole ==
    [erp |-> "manager", crm |-> "sales", sales |-> "sales",
     marketing |-> "marketing", support |-> "support", workflows |-> "admin",
     funnel |-> "sales"]

Holder ==
    [erp |-> "mgr", crm |-> "sal", sales |-> "sal", marketing |-> "mkt",
     support |-> "sup", workflows |-> "adm", funnel |-> "sal"]

\* One of each way a credential can fail to verify.
BadTokens ==
    { NoToken,
      [present |-> TRUE, signed |-> FALSE, expired |-> FALSE, sub |-> "root"],
      [present |-> TRUE, signed |-> TRUE,  expired |-> TRUE,  sub |-> "root"],
      [present |-> TRUE, signed |-> TRUE,  expired |-> FALSE, sub |-> None],
      [present |-> TRUE, signed |-> TRUE,  expired |-> FALSE, sub |-> "ghost"] }

\* The credentials a router's requests arrive with: the tokens of a holder of
\* its role, of a plain user, of a superuser and of a deactivated user, and
\* credentials that do not verify (every kind of them at the erp router, a
\* missing one at the others: all routers share the one dependency). A router
\* that is not mounted receives no request.
RequestTokens(router) ==
    IF mounted # router THEN {}
    ELSE { create_access_token(e) : e \in {Holder[router], "usr", "root", "gone"} } \cup
         (IF router = "erp" THEN BadTokens ELSE {NoToken})

\* jwt.decode: raises JWTError on a bad signature or an expired token.
jwt_decode(token) ==
    IF token.signed /\ ~token.expired
    THEN [ok |-> TRUE, sub |-> token.sub]
    ELSE [ok |-> FALSE, sub |-> None]

get_current_user_nosig(token) ==
    IF ~token.present THEN [status |-> 401, user |-> None]
    ELSE IF token.sub = None THEN [status |-> 401, user |-> None]
    ELSE IF token.sub \notin Emails THEN [status |-> 401, user |-> None]
    ELSE [status |-> 200, user |-> token.sub]

\* AuthService.get_current_user: the actor (its email), or 401.
get_current_user(token) ==
    IF ~token.present THEN [status |-> 401, user |-> None]
    ELSE LET payload == jwt_decode(token) IN
         IF ~payload.ok THEN [status |-> 401, user |-> None]
         ELSE IF payload.sub = None THEN [status |-> 401, user |-> None]
         ELSE IF payload.sub \notin Emails THEN [status |-> 401, user |-> None]
         ELSE [status |-> 200, user |-> payload.sub]

\* AuthService.get_current_active_user: 400 for a deactivated user.
get_current_active_user(token) ==
    LET cu == get_current_user(token) IN
    IF cu.status # 200 THEN cu
    ELSE IF ~Users[cu.user].is_active THEN [status |-> 400, user |-> None]
    ELSE cu

check_permissions_role_only(user, required_role) ==
    user.role = required_role

\* AuthService.check_permissions
check_permissions(user, required_role) ==
    user.role = required_role \/ user.is_superuser

-----------------------------------------------------------------------------
(* The generation gateway and the response record                          *)

\* What one awaited provider call can come back with: a raised fault, or text
\* that is a bare number, a JSON object or prose.
GatewayReplies ==
    { [ok |-> FALSE, kind |-> "fault",  val |-> 0],
      [ok |-> TRUE,  kind |-> "number", val |-> 42],
      [ok |-> TRUE,  kind |-> "json",   val |-> 7],
      [ok |-> TRUE,  kind |-> "json",   val |-> 8],
      [ok |-> TRUE,  kind |-> "seo",    val |-> 80],
      [ok |-> TRUE,  kind |-> "prose",  val |-> 0] }

\* The replies that differ for a call site that returns the text as it is,
\* parses it as JSON, parses it as a number, or reads a sentiment object.
TextReplies == { r \in GatewayReplies : r.kind \in {"fault", "prose"} }
JsonReplies == { r \in GatewayReplies : r.kind \in {"fault", "prose"} \/ r.val = 7 }
ScoreReplies == { r \in GatewayReplies : r.kind \in {"fault", "prose", "number"} }
SeoReplies == { r \in GatewayReplies : r.kind \in {"fault", "prose", "seo"} }
SentimentReplies == { r \in GatewayReplies : r.kind \in {"fault", "json", "number"} }

\* json.loads(response): a number is JSON, prose is not.
json_loads_ok(reply) == reply.ok /\ reply.kind \in {"json", "number"}

\* float(response.strip())
float_ok(reply) == reply.ok /\ reply.kind = "number"

NoPayload == [f \in {} |-> None]

\* The commit of a request ahead of its gateway calls.
PipelineCommitFirst(calls, wrote) ==
    (IF wrote THEN <<"commit">> ELSE <<>>) \o [i \in 1 .. calls |-> "gateway"]

\* The order of a request's gateway calls and its commit: the awaited calls
\* return, then the handler commits.
Pipeline(calls, wrote) ==
    [i \in 1 .. calls |-> "gateway"] \o (IF wrote THEN <<"commit">> ELSE <<>>)

\* The last request: endpoint, credential, target id, update payload, the row
\* before the request, and the response: status, body, gateway calls made,
\* whether any store was written, the order of the calls and the commit, the
\* fault that left the handler, the result of a scoring call, the document a
\* handler built and the gateway reply it parsed.
Response(ep, token, status, body, calls, id, payload, before, wrote) ==
    [ep |-> ep, token |-> token, status |-> status, body |-> body,
     calls |-> calls, id |-> id, payload |-> payload, before |-> before,
     wrote |-> wrote, order |-> Pipeline(calls, wrote), raised |-> None,
     scored |-> <<>>, built |-> <<>>, reply |-> <<>>]

NoResponse == Response("none", NoToken, 0, "none", 0, 0, NoPayload, {}, FALSE)

-----------------------------------------------------------------------------
(* erp/router.py: tasks                                                    *)

TaskUpdateFields == {"title", "description", "status", "priority", "due_date"}

\* TaskUpdate.dict(exclude_unset=True): the fields the request body set. None
\* is an explicit null; "t1" repeats the stored title.
TaskUpdates ==
    { NoPayload,
      [f \in {"title"} |-> "t1"],
      [f \in {"title"} |-> "t2"],
      [f \in {"description"} |-> None],
      [f \in {"status", "priority"} |->
          IF f = "status" THEN "completed" ELSE "high"],
      [f \in TaskUpdateFields |->
          CASE f = "title" -> "t2" [] f = "description" -> "d2"
            [] f = "status" -> "in_progress" [] f = "priority" -> "low"
            [] f = "due_date" -> "day2"] }

TaskCreates ==
    { [title |-> "t1", description |-> "d1", priority |-> "medium", due_date |-> None],
      [title |-> "t2", description |-> "d1", priority |-> "high", due_date |-> "day1"] }

\* A task as create_task stores it.
NewTask(task, owner, at) ==
    [title |-> task.title, description |-> task.description,
     status |-> "pending", priority |-> task.priority,
     assigned_to |-> owner, due_date |-> task.due_date,
     created_at |-> at, updated_at |-> at]

\* A request that ends before it touches a store or the gateway.
Reject(ep, token, status, id) ==
    /\ resp' = Response(ep, token, status, "error", 0, id, NoPayload, {}, FALSE)
    /\ UNCHANGED <<storeVars, now>>

\* A request that ends after `calls` gateway calls without a commit, on an
\* HTTPException the handler raised.
Abort(ep, token, status, calls, id) ==
    /\ resp' = Response(ep, token, status, "error", calls, id, NoPayload, {}, FALSE)
    /\ UNCHANGED <<storeVars, now>>

\* A handler that answers 500 without the fault's message.
handler_without_message(exc) == [status |-> 500, body |-> "Internal server error"]

\* global_exception_handler(request, exc): status 500, "message": str(exc).
global_exception_handler(exc) == [status |-> 500, body |-> exc]

\* The fault of a call site that awaits the gateway and then parses the text:
\* the provider's when the call raised, the parser's otherwise.
FaultOf(reply, error) == IF ~reply.ok THEN "APIError" ELSE error

\* The response to a request whose handler let the fault exc through.
Failed(r, exc) ==
    [r EXCEPT !.status = global_exception_handler(exc).status,
              !.body = global_exception_handler(exc).body,
              !.raised = exc]

\* A request that ends after `calls` gateway calls without a commit, on a
\* fault the handler did not catch.
Fault(ep, token, exc, calls, id) ==
    /\ resp' = Failed(Response(ep, token, 200, "none", calls, id, NoPayload, {}, FALSE),
                      exc)
    /\ UNCHANGED <<storeVars, now>>

GuardSkipped(token, role) ==
    get_current_active_user(token).status

\* Depends(get_current_active_user), then check_permissions(current_user, role):
\* the status the request ends with before its body runs, or 200.
Guard(token, role) ==
    LET au == get_current_active_user(token) IN
    IF au.status # 200 THEN au.status
    ELSE IF ~check_permissions(Users[au.user], role) THEN 403
    ELSE 200

\* Depends(get_current_active_user) alone.
Authenticated(token) == get_current_active_user(token).status

Actor(token) == Users[get_current_active_user(token).user]

\* The inputs worth drawing for a request: a request the guard rejects never
\* reads its body, so one body stands for all.
Bodies(status, S) == IF status = 200 THEN S ELSE {CHOOSE x \in S : TRUE}

\* db.add(row); db.commit(); db.refresh(row)
Insert(table, row) ==
    /\ db' = [db EXCEPT ![table] = @ @@ (seq[table] :> row)]
    /\ seq' = [seq EXCEPT ![table] = @ + 1]
    /\ now' = now + 1

ApplyUpdateReset(row, payload) ==
    LET set == [f \in DOMAIN row |->
                   IF f \in DOMAIN payload THEN payload[f]
                   ELSE IF f \in {"created_at", "updated_at"} THEN row[f]
                   ELSE None]
    IN  IF set = row THEN row ELSE [set EXCEPT !.updated_at = now]

\* The row an update leaves: setattr for every field of the payload that is a
\* column, and the store's onupdate stamp when the flush finds a changed column.
ApplyUpdate(row, payload) ==
    LET set == [f \in DOMAIN row |->
                   IF f \in DOMAIN payload THEN payload[f] ELSE row[f]]
    IN  IF set = row THEN row ELSE [set EXCEPT !.updated_at = now]

\* The row a query by id finds, as a set: empty when the id resolves to nothing.
Lookup(table, id) == IF id \in DOMAIN db[table] THEN {db[table][id]} ELSE {}

\* A create that does not look its parent up.
parent_unchecked(table, id) == FALSE

\* The "Verify ... exists" query of a create: first() is None.
parent_missing(table, id) == Lookup(table, id) = {}

\* The 404 of a create whose parent is missing.
ParentNotFound(ep, token, body) ==
    /\ resp' = Response(ep, token, 404, "error", 0, 0, body, {}, FALSE)
    /\ UNCHANGED <<storeVars, now>>

GetByIdNullBody(ep, token, table, id) ==
    /\ resp' = Response(ep, token, 200,
                        IF Lookup(table, id) = {} THEN "null" ELSE "row",
                        0, id, NoPayload, Lookup(table, id), FALSE)
    /\ UNCHANGED <<storeVars, now>>

\* GET /{kind}/{id} of the relational routers: query(...).first(), a 404 when
\* it is None, the row otherwise.
GetById(ep, token, table, id) ==
    IF Lookup(table, id) = {} THEN Abort(ep, token, 404, 0, id)
    ELSE /\ resp' = Response(ep, token, 200, "row", 0, id, NoPayload,
                             Lookup(table, id), FALSE)
         /\ UNCHANGED <<storeVars, now>>

\* POST /tasks/
create_task(token, task) ==
    /\ Mounted("erp")
    /\ LET g == Guard(token, "manager") IN
       IF g # 200 THEN Reject("create_task", token, g, 0)
       ELSE /\ now <= MaxCommits
            /\ Insert("tasks", NewTask(task, Actor(token).id, now))
            /\ resp' = Response("create_task", token, 200, "row", 0, seq.tasks,
                                NoPayload, {}, TRUE)
            /\ UNCHANGED docs

\* GET /tasks/{task_id}
get_task(token, id) ==
    /\ Mounted("erp")
    /\ LET au == Authenticated(token) IN
       IF au # 200 THEN Reject("get_task", token, au, id)
       ELSE GetById("get_task", token, "tasks", id)

\* An update that looks the row up before it checks the caller's role.
UpdateRowLookupFirst(ep, token, role, table, id, payload) ==
    LET au == Authenticated(token)
        g == Guard(token, role)
    IN
    IF au # 200 THEN Reject(ep, token, au, id)
    ELSE IF Lookup(table, id) = {} THEN Abort(ep, token, 404, 0, id)
    ELSE IF g # 200 THEN Reject(ep, token, g, id)
    ELSE /\ now <= MaxCommits
         /\ db' = [db EXCEPT ![table][id] = ApplyUpdate(@, payload)]
         /\ now' = now + 1
         /\ resp' = Response(ep, token, 200, "row", 0, id, payload,
                             Lookup(table, id), db' # db)
         /\ UNCHANGED <<seq, docs>>

\* PUT /{kind}/{id} without re-scoring: update_task, update_ticket,
\* update_workflow.
UpdateRow(ep, token, role, table, id, payload) ==
    LET g == Guard(token, role) IN
    IF g # 200 THEN Reject(ep, token, g, id)
    ELSE IF Lookup(table, id) = {} THEN Abort(ep, token, 404, 0, id)
    ELSE /\ now <= MaxCommits
         /\ db' = [db EXCEPT ![table][id] = ApplyUpdate(@, payload)]
         /\ now' = now + 1
         /\ resp' = Response(ep, token, 200, "row", 0, id, payload,
                             Lookup(table, id), db' # db)
         /\ UNCHANGED <<seq, docs>>

\* PUT /tasks/{task_id}
update_task(token, id, payload) ==
    /\ Mounted("erp")
    /\ UpdateRow("update_task", token, "manager", "tasks", id, payload)

\* DELETE /tasks/{task_id}
delete_task(token, id) ==
    /\ Mounted("erp")
    /\ LET g == Guard(token, "manager") IN
       IF g # 200 THEN Reject("delete_task", token, g, id)
       ELSE IF Lookup("tasks", id) = {} THEN Abort("delete_task", token, 404, 0, id)
       ELSE /\ now <= MaxCommits
            /\ db' = [db EXCEPT !.tasks = [i \in DOMAIN @ \ {id} |-> @[i]]]
            /\ now' = now + 1
            /\ resp' = Response("delete_task", token, 200, "message", 0, id,
                                NoPayload, Lookup("tasks", id), TRUE)
            /\ UNCHANGED <<seq, docs>>

\* An analytics endpoint of the routers: the guard, an optional lookup of the
\* row the analysis is about (table = None: no lookup), then one gateway call
\* whose text is returned as it is (parse = FALSE) or through json.loads.
Insights(ep, token, role, table, id, parse, reply) ==
    LET g == Guard(token, role) IN
    IF g # 200 THEN Reject(ep, token, g, id)
    ELSE IF table # None /\ Lookup(table, id) = {} THEN Abort(ep, token, 404, 0, id)
    ELSE IF ~reply.ok \/ (parse /\ ~json_loads_ok(reply))
         THEN Fault(ep, token, FaultOf(reply, "JSONDecodeError"), 1, id)
    ELSE /\ resp' = Response(ep, token, 200, "insights", 1, id, NoPayload, {}, FALSE)
         /\ UNCHANGED <<storeVars, now>>

\* GET /analytics/task-insights
get_task_insights(token, reply) ==
    /\ Mounted("erp")
    /\ Insights("get_task_insights", token, "manager", None, 0, TRUE, reply)

\* GET /analytics/workload-optimization
get_workload_optimization(token, reply) ==
    /\ Mounted("erp")
    /\ Insights("get_workload_optimization", token, "manager", None, 0, TRUE, reply)

ErpNext ==
    \/ \E t \in RequestTokens("erp") :
         \E c \in Bodies(Guard(t, "manager"), TaskCreates) : create_task(t, c)
    \/ \E t \in RequestTokens("erp"), i \in Ids : get_task(t, i)
    \/ \E t \in RequestTokens("erp"), i \in Ids :
         \E p \in Bodies(Guard(t, "manager"), TaskUpdates) : update_task(t, i, p)
    \/ \E t \in RequestTokens("erp"), i \in Ids : delete_task(t, i)
    \/ \E t \in RequestTokens("erp") :
         \E r \in Bodies(Guard(t, "manager"), JsonReplies) : get_task_insights(t, r)
    \/ \E t \in RequestTokens("erp") :
         \E r \in Bodies(Guard(t, "manager"), JsonReplies) :
            get_workload_optimization(t, r)

-----------------------------------------------------------------------------
(* crm/router.py: leads and customers                                      *)

LeadCreates ==
    { [email |-> "e1", name |-> "n1", company |-> "c1", phone |-> None, source |-> None],
      [email |-> "e2", name |-> "n2", company |-> "c2", phone |-> "p2", source |-> "web"] }

\* LeadUpdate.dict(exclude_unset=True); "c1" repeats the stored company.
LeadUpdates ==
    { NoPayload,
      [f \in {"name"} |-> "n2"],
      [f \in {"company"} |-> "c1"],
      [f \in {"company"} |-> "c2"],
      [f \in {"status", "source"} |-> IF f = "status" THEN "contacted" ELSE None],
      [f \in {"name", "company", "phone", "status", "source"} |->
          CASE f = "name" -> "n2" [] f = "company" -> "c2" [] f = "phone" -> "p2"
            [] f = "status" -> "qualified" [] f = "source" -> "web"] }

\* A lead as crm create_lead stores it.
NewLead(lead, score, at) ==
    [email |-> lead.email, name |-> lead.name, company |-> lead.company,
     phone |-> lead.phone, status |-> "new", source |-> lead.source,
     score |-> score, created_at |-> at, updated_at |-> at]

\* A scorer that falls back to the column default when the call or float()
\* fails.
lead_score_or_default(reply) ==
    IF float_ok(reply) THEN [ok |-> TRUE, score |-> reply.val]
    ELSE [ok |-> TRUE, score |-> 0]

\* AIService.generate_lead_score: one gateway call, then float() of its text.
generate_lead_score(reply) ==
    IF float_ok(reply) THEN [ok |-> TRUE, score |-> reply.val]
    ELSE [ok |-> FALSE, score |-> 0]

\* POST /leads/
create_lead(token, lead, reply) ==
    /\ Mounted("crm")
    /\ LET g == Guard(token, "sales") IN
       IF g # 200 THEN Reject("create_lead", token, g, 0)
       ELSE IF ~generate_lead_score(reply).ok
            THEN /\ resp' = Failed([Response("create_lead", token, 200, "none", 1, 0,
                                             lead, {}, FALSE)
                                       EXCEPT !.reply = <<reply>>],
                                   FaultOf(reply, "ValueError"))
                 /\ UNCHANGED <<storeVars, now>>
       ELSE /\ now <= MaxCommits
            /\ Insert("leads", NewLead(lead, generate_lead_score(reply).score, now))
            /\ resp' = [Response("create_lead", token, 200, "row", 1, seq.leads,
                                 lead, {}, TRUE)
                           EXCEPT !.scored = <<generate_lead_score(reply).score>>,
                                  !.reply = <<reply>>]
            /\ UNCHANGED docs

\* GET /leads/{lead_id}
get_lead(token, id) ==
    /\ Mounted("crm")
    /\ LET au == Authenticated(token) IN
       IF au # 200 THEN Reject("get_lead", token, au, id)
       ELSE GetById("get_lead", token, "leads", id)

\* update_lead re-scores when the payload names one of these fields.
RescoreFields == {"company", "industry"}

\* An update that never asks for a new score.
RescoresNever(payload) == FALSE

\* update_lead: any(field in update_data for field in ["company", "industry"]).
Rescores(payload) == DOMAIN payload \cap RescoreFields # {}

\* PUT /leads/{lead_id}
update_lead(token, id, payload, reply) ==
    /\ Mounted("crm")
    /\ LET g == Guard(token, "sales") IN
       IF g # 200 THEN Reject("update_lead", token, g, id)
       ELSE IF Lookup("leads", id) = {} THEN Abort("update_lead", token, 404, 0, id)
       ELSE IF Rescores(payload) /\ ~generate_lead_score(reply).ok
            THEN /\ resp' = Failed(Response("update_lead", token, 200, "none", 1, id,
                                            payload, Lookup("leads", id), FALSE),
                                   FaultOf(reply, "ValueError"))
                 /\ UNCHANGED <<storeVars, now>>
       ELSE /\ now <= MaxCommits
            /\ db' = [db EXCEPT !.leads[id] =
                        ApplyUpdate(@,
                           IF Rescores(payload)
                           THEN payload @@ [f \in {"score"} |->
                                               generate_lead_score(reply).score]
                           ELSE payload)]
            /\ now' = now + 1
            /\ resp' = [Response("update_lead", token, 200, "row",
                                 IF Rescores(payload) THEN 1 ELSE 0, id, payload,
                                 Lookup("leads", id), db' # db)
                           EXCEPT !.scored = IF Rescores(payload)
                                             THEN <<generate_lead_score(reply).score>>
                                             ELSE <<>>]
            /\ UNCHANGED <<seq, docs>>

CustomerCreates ==
    [lead_id : Ids, company_name : {"c1"}, industry : {"i1"},
     annual_revenue : {100}, customer_since : {0}, status : {"active"}]

NewCustomer(customer, at) ==
    [lead_id |-> customer.lead_id, company_name |-> customer.company_name,
     industry |-> customer.industry, annual_revenue |-> customer.annual_revenue,
     customer_since |-> customer.customer_since, status |-> customer.status,
     created_at |-> at, updated_at |-> at]

\* POST /customers/
create_customer(token, customer) ==
    /\ Mounted("crm")
    /\ LET g == Guard(token, "sales") IN
       IF g # 200 THEN Reject("create_customer", token, g, 0)
       ELSE IF parent_missing("leads", customer.lead_id)
            THEN ParentNotFound("create_customer", token, customer)
       ELSE /\ now <= MaxCommits
            /\ Insert("customers", NewCustomer(customer, now))
            /\ resp' = Response("create_customer", token, 200, "row", 0,
                                seq.customers, customer, {}, TRUE)
            /\ UNCHANGED docs

\* GET /customers/{customer_id}
get_customer(token, id) ==
    /\ Mounted("crm")
    /\ LET au == Authenticated(token) IN
       IF au # 200 THEN Reject("get_customer", token, au, id)
       ELSE GetById("get_customer", token, "customers", id)

\* GET /analytics/lead-insights
get_lead_insights(token, reply) ==
    /\ Mounted("crm")
    /\ Insights("get_lead_insights", token, "sales", None, 0, TRUE, reply)

\* GET /analytics/customer-value
get_customer_value_insights(token, reply) ==
    /\ Mounted("crm")
    /\ Insights("get_customer_value_insights", token, "sales", None, 0, TRUE, reply)

\* The replies worth drawing for an update: the gateway is called only when
\* the payload re-scores.
RescoreReplies(payload) ==
    IF Rescores(payload) THEN ScoreReplies ELSE {CHOOSE r \in ScoreReplies : TRUE}

CrmNext ==
    \/ \E t \in RequestTokens("crm") :
         \E c \in Bodies(Guard(t, "sales"), LeadCreates),
            r \in Bodies(Guard(t, "sales"), ScoreReplies) : create_lead(t, c, r)
    \/ \E t \in RequestTokens("crm"), i \in Ids : get_lead(t, i)
    \/ \E t \in RequestTokens("crm"), i \in Ids :
         \E p \in Bodies(Guard(t, "sales"), LeadUpdates) :
            \E r \in RescoreReplies(p) : update_lead(t, i, p, r)
    \/ \E t \in RequestTokens("crm") :
         \E c \in Bodies(Guard(t, "sales"), CustomerCreates) : create_customer(t, c)
    \/ \E t \in RequestTokens("crm"), i \in Ids : get_customer(t, i)
    \/ \E t \in RequestTokens("crm") :
         \E r \in Bodies(Guard(t, "sales"), JsonReplies) : get_lead_insights(t, r)
    \/ \E t \in RequestTokens("crm") :
         \E r \in Bodies(Guard(t, "sales"), JsonReplies) :
            get_customer_value_insights(t, r)

-----------------------------------------------------------------------------
(* support/router.py: tickets                                              *)

\* The columns of SupportTicket a request can name. TicketCreate and
\* TicketUpdate also carry category, which SupportTicket does not map.
TicketColumns ==
    {"customer_id", "subject", "description", "status", "priority",
     "assigned_to", "resolution", "created_at", "updated_at"}

TicketCreates ==
    [customer_id : Ids, subject : {"s1"}, description : {"d1"},
     priority : {"medium", "low"}, category : {None}]

\* TicketUpdate.dict(exclude_unset=True)
TicketUpdates ==
    { NoPayload,
      [f \in {"status"} |-> "open"],
      [f \in {"category"} |-> "billing"],
      [f \in {"status", "resolution"} |-> IF f = "status" THEN "closed" ELSE "r1"],
      [f \in {"subject", "description", "priority"} |->
          CASE f = "subject" -> "s2" [] f = "description" -> None
            [] f = "priority" -> "high"] }

\* A ticket row of table support_tickets.
NewTicket(ticket, priority, owner, at) ==
    [customer_id |-> ticket.customer_id, subject |-> ticket.subject,
     description |-> ticket.description, status |-> "open", priority |-> priority,
     assigned_to |-> owner, resolution |-> None, created_at |-> at,
     updated_at |-> at]

\* AIService.analyze_sentiment, then sentiment_analysis["negative"]: the
\* reply must be a JSON object; its val is the negative score in tenths.
analyze_sentiment(reply) ==
    IF reply.ok /\ reply.kind = "json" THEN [ok |-> TRUE, negative |-> reply.val]
    ELSE [ok |-> FALSE, negative |-> 0]

\* The 0.7 of create_ticket, in tenths.
NegativeThreshold == 7

\* The keyword arguments create_ticket hands the SupportTicket constructor.
TicketKeywords ==
    {"customer_id", "subject", "description", "priority", "category", "assigned_to"}

\* The declarative constructor raises TypeError for a keyword that is no
\* attribute of the mapped class.
ConstructorAccepts(keywords, columns) == keywords \subseteq columns

\* POST /tickets/
create_ticket(token, ticket, reply) ==
    /\ Mounted("support")
    /\ LET au == Authenticated(token)
           priority == IF analyze_sentiment(reply).negative > NegativeThreshold
                       THEN "high" ELSE ticket.priority
       IN
       IF au # 200 THEN Reject("create_ticket", token, au, 0)
       ELSE IF parent_missing("customers", ticket.customer_id)
            THEN ParentNotFound("create_ticket", token, ticket)
       ELSE IF ~analyze_sentiment(reply).ok
            THEN /\ resp' = Failed(Response("create_ticket", token, 200, "none", 1, 0,
                                            ticket, {}, FALSE),
                                   FaultOf(reply, "JSONDecodeError"))
                 /\ UNCHANGED <<storeVars, now>>
       ELSE IF ~ConstructorAccepts(TicketKeywords, TicketColumns)
            THEN /\ resp' = Failed([Response("create_ticket", token, 200, "none", 1, 0,
                                             ticket, {}, FALSE)
                                       EXCEPT !.scored = <<analyze_sentiment(reply).negative>>],
                                   "TypeError")
                 /\ UNCHANGED <<storeVars, now>>
       ELSE /\ now <= MaxCommits
            /\ Insert("tickets", NewTicket(ticket, priority, Actor(token).id, now))
            /\ resp' = [Response("create_ticket", token, 200, "row", 1, seq.tickets,
                                 ticket, {}, TRUE)
                           EXCEPT !.scored = <<analyze_sentiment(reply).negative>>]
            /\ UNCHANGED docs

\* GET /tickets/{ticket_id}
get_ticket(token, id) ==
    /\ Mounted("support")
    /\ LET au == Authenticated(token) IN
       IF au # 200 THEN Reject("get_ticket", token, au, id)
       ELSE GetById("get_ticket", token, "tickets", id)

\* PUT /tickets/{ticket_id}
update_ticket(token, id, payload) ==
    /\ Mounted("support")
    /\ UpdateRow("update_ticket", token, "support", "tickets", id, payload)

\* POST /chat/
chat_with_ai(token, reply) ==
    /\ Mounted("support")
    /\ LET au == Authenticated(token) IN
       IF au # 200 THEN Reject("chat_with_ai", token, au, 0)
       ELSE IF ~reply.ok THEN Fault("chat_with_ai", token, "APIError", 1, 0)
       ELSE /\ resp' = Response("chat_with_ai", token, 200, "chat", 1, 0,
                                NoPayload, {}, FALSE)
            /\ UNCHANGED <<storeVars, now>>

\* GET /analytics/ticket-insights
get_ticket_insights(token, reply) ==
    /\ Mounted("support")
    /\ Insights("get_ticket_insights", token, "support", None, 0, FALSE, reply)

\* GET /analytics/customer-support-score
get_customer_support_score(token, id, reply) ==
    /\ Mounted("support")
    /\ Insights("get_customer_support_score", token, "support", "customers", id,
                FALSE, reply)

SupportNext ==
    \/ \E t \in RequestTokens("support") :
         \E c \in Bodies(Authenticated(t), TicketCreates),
            r \in Bodies(Authenticated(t), SentimentReplies) : create_ticket(t, c, r)
    \/ \E t \in RequestTokens("support"), i \in Ids : get_ticket(t, i)
    \/ \E t \in RequestTokens("support"), i \in Ids :
         \E p \in Bodies(Guard(t, "support"), TicketUpdates) : update_ticket(t, i, p)
    \/ \E t \in RequestTokens("support") :
         \E r \in Bodies(Authenticated(t), TextReplies) : chat_with_ai(t, r)
    \/ \E t \in RequestTokens("support") :
         \E r \in Bodies(Guard(t, "support"), TextReplies) :
            get_ticket_insights(t, r)
    \/ \E t \in RequestTokens("support"), i \in Ids :
         \E r \in Bodies(Guard(t, "support"), TextReplies) :
            get_customer_support_score(t, i, r)

-----------------------------------------------------------------------------
(* workflows/router.py                                                     *)

\* Workflow.actions: the list of action dicts, each named by its "id"; None is
\* a dict without the key.
ActionLists == { <<>>, <<"a1">>, <<"a1", "a2">>, <<None, "a2">> }

WorkflowCreates ==
    [name : {"w1"}, description : {"d1"}, trigger_type : {"manual"},
     trigger_config : {"cfg1"}, actions : {<<"a1">>, <<"a1", "a2">>, <<None, "a2">>},
     is_active : BOOLEAN]

\* WorkflowUpdate.dict(exclude_unset=True)
WorkflowUpdates ==
    { NoPayload,
      [f \in {"name"} |-> "w1"],
      [f \in {"is_active"} |-> FALSE],
      [f \in {"actions"} |-> <<>>],
      [f \in {"name", "description", "trigger_config"} |->
          CASE f = "name" -> "w2" [] f = "description" -> "d2"
            [] f = "trigger_config" -> "cfg2"] }

NewWorkflow(workflow, owner, at) ==
    [name |-> workflow.name, description |-> workflow.description,
     trigger_type |-> workflow.trigger_type,
     trigger_config |-> workflow.trigger_config, actions |-> workflow.actions,
     is_active |-> workflow.is_active, created_by |-> owner,
     created_at |-> at, updated_at |-> at]

\* POST /workflows/
create_workflow(token, workflow, reply) ==
    /\ Mounted("workflows")
    /\ LET g == Guard(token, "admin") IN
       IF g # 200 THEN Reject("create_workflow", token, g, 0)
       ELSE IF ~reply.ok THEN Fault("create_workflow", token, "APIError", 1, 0)
       ELSE /\ now <= MaxCommits
            /\ Insert("workflows", NewWorkflow(workflow, Actor(token).id, now))
            /\ resp' = Response("create_workflow", token, 200, "row", 1,
                                seq.workflows, NoPayload, {}, TRUE)
            /\ UNCHANGED docs

\* GET /workflows/{workflow_id}
get_workflow(token, id) ==
    /\ Mounted("workflows")
    /\ LET au == Authenticated(token) IN
       IF au # 200 THEN Reject("get_workflow", token, au, id)
       ELSE GetById("get_workflow", token, "workflows", id)

\* PUT /workflows/{workflow_id}
update_workflow(token, id, payload) ==
    /\ Mounted("workflows")
    /\ UpdateRow("update_workflow", token, "admin", "workflows", id, payload)

\* The routers whose module imports the collection content_generation.
ImportsCollection == {"sales", "marketing"}

\* ObjectId and str(ObjectId): the document store generates the first, the
\* responses and the path parameters carry the second.
ObjectId(n) == [type |-> "ObjectId", hex |-> n]
StrOf(oid) == [type |-> "str", hex |-> oid.hex]

\* An insert that also rewrites the documents of the same kind already stored.
InsertDocRestamping(kind, ref, params, content, status, owner) ==
    /\ docs' = { IF d.kind = kind THEN [d EXCEPT !.created_at = now] ELSE d : d \in docs }
          \cup
          { [_id |-> ObjectId(seq.docs), kind |-> kind, ref |-> ref,
             params |-> params, content |-> content, status |-> status,
             created_by |-> owner, created_at |-> now] }
    /\ seq' = [seq EXCEPT !.docs = @ + 1]
    /\ now' = now + 1
    /\ UNCHANGED db

\* content_generation.insert_one(doc)
InsertDoc(kind, ref, params, content, status, owner) ==
    /\ docs' = docs \cup
          { [_id |-> ObjectId(seq.docs), kind |-> kind, ref |-> ref,
             params |-> params, content |-> content, status |-> status,
             created_by |-> owner, created_at |-> now] }
    /\ seq' = [seq EXCEPT !.docs = @ + 1]
    /\ now' = now + 1
    /\ UNCHANGED db

\* A loop that runs every action whatever its call returns.
RunToTheEnd(actions, replies, k) ==
    [status |-> "completed", done |-> Len(actions), calls |-> Len(actions),
     error |-> None]

\* The try block of execute_workflow: one gateway call and one json.loads per
\* action, in list order, up to the first that fails; the parsed output is
\* stored under action["id"]. replies[1] answers the execution plan,
\* replies[k + 1] the k-th action.
RECURSIVE RunActions(_, _, _)
RunActions(actions, replies, k) ==
    IF k > Len(actions)
    THEN [status |-> "completed", done |-> Len(actions), calls |-> Len(actions),
          error |-> None]
    ELSE IF ~replies[k + 1].ok
         THEN [status |-> "failed", done |-> k - 1, calls |-> k, error |-> "APIError"]
    ELSE IF ~json_loads_ok(replies[k + 1])
         THEN [status |-> "failed", done |-> k - 1, calls |-> k,
               error |-> "JSONDecodeError"]
    ELSE IF actions[k] = None
         THEN [status |-> "failed", done |-> k - 1, calls |-> k, error |-> "KeyError"]
    ELSE RunActions(actions, replies, k + 1)

\* execution_doc as it is handed to insert_one: the keys of output_data, and
\* completed_at and error, which are present or absent.
execution_doc(actions, run) ==
    [status |-> run.status,
     output_data |-> { actions[i] : i \in 1 .. run.done },
     completed_at |-> run.status = "completed",
     error |-> run.error]

\* The checks ahead of the execution without the one on is_active.
existence_check_only(id) == IF Lookup("workflows", id) = {} THEN 404 ELSE 200

\* The two checks ahead of the execution: the workflow exists, and is active.
execution_checks(id) ==
    IF Lookup("workflows", id) = {} THEN 404
    ELSE IF ~db.workflows[id].is_active THEN 400
    ELSE 200

\* POST /workflows/{workflow_id}/execute
execute_workflow(token, id, replies) ==
    /\ Mounted("workflows")
    /\ LET au == Authenticated(token) IN
       IF au # 200 THEN Reject("execute_workflow", token, au, id)
       ELSE IF execution_checks(id) # 200
            THEN Abort("execute_workflow", token, execution_checks(id), 0, id)
       ELSE IF ~replies[1].ok THEN Fault("execute_workflow", token, "APIError", 1, id)
       ELSE LET run == RunActions(db.workflows[id].actions, replies, 1)
                r == [Response("execute_workflow", token, 200, "doc", 1 + run.calls,
                               id, replies, Lookup("workflows", id), FALSE)
                         EXCEPT !.built = <<execution_doc(db.workflows[id].actions, run)>>]
            IN
            IF "workflows" \notin ImportsCollection
            THEN /\ resp' = Failed(r, "NameError")
                 /\ UNCHANGED <<storeVars, now>>
            ELSE /\ now <= MaxCommits
                 /\ InsertDoc("execution", id, "input", run.done, run.status,
                              Actor(token).id)
                 /\ resp' = [r EXCEPT !.id = seq.docs, !.wrote = TRUE,
                                      !.order = Pipeline(1 + run.calls, TRUE)]

\* GET /analytics/workflow-performance
get_workflow_performance(token, id, reply) ==
    /\ Mounted("workflows")
    /\ LET g == Guard(token, "admin") IN
       IF g # 200 THEN Reject("get_workflow_performance", token, g, id)
       ELSE IF Lookup("workflows", id) = {}
            THEN Abort("get_workflow_performance", token, 404, 0, id)
       ELSE IF "workflows" \notin ImportsCollection
            THEN Fault("get_workflow_performance", token, "NameError", 0, id)
       ELSE Insights("get_workflow_performance", token, "admin", None, id,
                     FALSE, reply)

\* GET /analytics/workflow-optimization
get_workflow_optimization(token, id, reply) ==
    /\ Mounted("workflows")
    /\ Insights("get_workflow_optimization", token, "admin", "workflows", id,
                FALSE, reply)

\* The replies an execution of workflow id can meet: a fault, JSON or prose
\* for the plan and for each action (one reply when the request ends before
\* the plan).
ExecutionReplies(id) ==
    [1 .. (IF Lookup("workflows", id) = {} THEN 1
           ELSE 1 + Len(db.workflows[id].actions)) -> JsonReplies]

WorkflowsNext ==
    \/ \E t \in RequestTokens("workflows") :
         \E c \in Bodies(Guard(t, "admin"), WorkflowCreates),
            r \in Bodies(Guard(t, "admin"), TextReplies) : create_workflow(t, c, r)
    \/ \E t \in RequestTokens("workflows"), i \in Ids : get_workflow(t, i)
    \/ \E t \in RequestTokens("workflows"), i \in Ids :
         \E p \in Bodies(Guard(t, "admin"), WorkflowUpdates) : update_workflow(t, i, p)
    \/ \E t \in RequestTokens("workflows"), i \in Ids :
         \E rs \in Bodies(Authenticated(t), ExecutionReplies(i)) :
            execute_workflow(t, i, rs)
    \/ \E t \in RequestTokens("workflows"), i \in Ids :
         \E r \in Bodies(Guard(t, "admin"), TextReplies) :
            get_workflow_performance(t, i, r)
    \/ \E t \in RequestTokens("workflows"), i \in Ids :
         \E r \in Bodies(Guard(t, "admin"), TextReplies) :
            get_workflow_optimization(t, i, r)

-----------------------------------------------------------------------------
(* sales/router.py: pipelines, proposals                                   *)

\* content_generation.find_one({"_id": key}): the documents whose _id equals
\* the key, compared as the store compares them (an ObjectId is not a str).
FindOne(key) == { d \in docs : d._id = key }

FindOneByStr(key) == { d \in docs : StrOf(d._id) = key }

\* GET of a document by the id in the path, a str: 404 when find_one is None.
GetDoc(ep, token, n) ==
    LET au == Authenticated(token) IN
    IF au # 200 THEN Reject(ep, token, au, n)
    ELSE IF FindOne(StrOf(ObjectId(n))) = {} THEN Abort(ep, token, 404, 0, n)
    ELSE /\ resp' = Response(ep, token, 200, "doc", 0, n, NoPayload, {}, FALSE)
         /\ UNCHANGED <<storeVars, now>>

\* An analytics endpoint about a document: the guard, find_one by the str in
\* the query, then one gateway call whose text is returned.
DocInsights(ep, token, role, n, reply) ==
    LET g == Guard(token, role) IN
    IF g # 200 THEN Reject(ep, token, g, n)
    ELSE IF FindOne(StrOf(ObjectId(n))) = {} THEN Abort(ep, token, 404, 0, n)
    ELSE IF ~reply.ok THEN Fault(ep, token, "APIError", 1, n)
    ELSE /\ resp' = Response(ep, token, 200, "insights", 1, n, NoPayload, {}, FALSE)
         /\ UNCHANGED <<storeVars, now>>

PipelineRequests == {"p1", "p2"}

\* POST /pipelines/
create_pipeline(token, pipeline, reply) ==
    /\ Mounted("sales")
    /\ LET g == Guard(token, "sales") IN
       IF g # 200 THEN Reject("create_pipeline", token, g, 0)
       ELSE IF ~reply.ok THEN Fault("create_pipeline", token, "APIError", 1, 0)
       ELSE /\ now <= MaxCommits
            /\ InsertDoc("pipeline", 0, pipeline, reply.kind, "none", Actor(token).id)
            /\ resp' = Response("create_pipeline", token, 200, "doc", 1, seq.docs,
                                NoPayload, {}, TRUE)

\* GET /pipelines/{pipeline_id}
get_pipeline(token, n) ==
    /\ Mounted("sales")
    /\ GetDoc("get_pipeline", token, n)

\* The fields ProposalResponse requires and the keys create_proposal returns.
ProposalResponseFields ==
    {"id", "customer_id", "content", "status", "created_at", "updated_at", "metadata"}

ProposalReturned ==
    {"id", "customer_id", "content", "status", "product_data", "pricing_data",
     "custom_requirements", "created_by", "created_at", "updated_at"}

\* POST /proposals/: the document is inserted before the response model
\* rejects the returned dict.
create_proposal(token, customer_id, reply) ==
    /\ Mounted("sales")
    /\ LET g == Guard(token, "sales") IN
       IF g # 200 THEN Reject("create_proposal", token, g, 0)
       ELSE IF Lookup("customers", customer_id) = {}
            THEN Abort("create_proposal", token, 404, 0, 0)
       ELSE IF ~reply.ok THEN Fault("create_proposal", token, "APIError", 1, 0)
       ELSE /\ now <= MaxCommits
            /\ InsertDoc("proposal", customer_id, "product", reply.kind, "draft",
                         Actor(token).id)
            /\ resp' = LET r == Response("create_proposal", token, 200, "doc", 1,
                                         seq.docs, NoPayload, {}, TRUE)
                       IN  IF ProposalResponseFields \subseteq ProposalReturned
                           THEN r ELSE Failed(r, "ResponseValidationError")

\* GET /proposals/{proposal_id}
get_proposal(token, n) ==
    /\ Mounted("sales")
    /\ GetDoc("get_proposal", token, n)

\* GET /analytics/pipeline-performance
get_pipeline_performance(token, n, reply) ==
    /\ Mounted("sales")
    /\ DocInsights("get_pipeline_performance", token, "sales", n, reply)

\* GET /analytics/customer-insights
get_customer_insights(token, id, reply) ==
    /\ Mounted("sales")
    /\ Insights("get_customer_insights", token, "sales", "customers", id, FALSE, reply)

SalesNext ==
    \/ \E t \in RequestTokens("sales") :
         \E c \in Bodies(Guard(t, "sales"), PipelineRequests),
            r \in Bodies(Guard(t, "sales"), TextReplies) : create_pipeline(t, c, r)
    \/ \E t \in RequestTokens("sales"), i \in Ids : get_pipeline(t, i)
    \/ \E t \in RequestTokens("sales"), i \in Ids :
         \E r \in Bodies(Guard(t, "sales"), TextReplies) : create_proposal(t, i, r)
    \/ \E t \in RequestTokens("sales"), i \in Ids : get_proposal(t, i)
    \/ \E t \in RequestTokens("sales"), i \in Ids :
         \E r \in Bodies(Guard(t, "sales"), TextReplies) :
            get_pipeline_performance(t, i, r)
    \/ \E t \in RequestTokens("sales"), i \in Ids :
         \E r \in Bodies(Guard(t, "sales"), TextReplies) :
            get_customer_insights(t, i, r)

-----------------------------------------------------------------------------
(* marketing/router.py: content, campaigns                                 *)

\* float(seo_analysis.split("SEO score: ")[1].split("\n")[0]): the text has
\* the marker and a number after it.
seo_score_ok(reply) == reply.kind = "seo"

ContentRequests == {"topic1", "topic2"}

\* POST /content/generate: one gateway call for the content, one for its SEO
\* analysis, then the insert.
generate_content(token, request, content, seo_analysis) ==
    /\ Mounted("marketing")
    /\ LET g == Guard(token, "marketing") IN
       IF g # 200 THEN Reject("generate_content", token, g, 0)
       ELSE IF ~content.ok THEN Fault("generate_content", token, "APIError", 1, 0)
       ELSE IF ~seo_analysis.ok \/ ~seo_score_ok(seo_analysis)
            THEN Fault("generate_content", token, FaultOf(seo_analysis, "IndexError"), 2, 0)
       ELSE /\ now <= MaxCommits
            /\ InsertDoc("content", seo_analysis.val, request, content.kind, "none",
                         Actor(token).id)
            /\ resp' = Response("generate_content", token, 200, "doc", 2, seq.docs,
                                NoPayload, {}, TRUE)

\* GET /content/{content_id}
get_content(token, n) ==
    /\ Mounted("marketing")
    /\ GetDoc("get_content", token, n)

CampaignRequests == {"c1"}

\* POST /campaigns/
create_campaign(token, campaign, reply) ==
    /\ Mounted("marketing")
    /\ LET g == Guard(token, "marketing") IN
       IF g # 200 THEN Reject("create_campaign", token, g, 0)
       ELSE IF ~reply.ok THEN Fault("create_campaign", token, "APIError", 1, 0)
       ELSE /\ now <= MaxCommits
            /\ InsertDoc("campaign", 0, campaign, reply.kind, "planning",
                         Actor(token).id)
            /\ resp' = Response("create_campaign", token, 200, "doc", 1, seq.docs,
                                NoPayload, {}, TRUE)

\* POST /seo/analyze
analyze_seo(token, reply) ==
    /\ Mounted("marketing")
    /\ Insights("analyze_seo", token, "marketing", None, 0, FALSE, reply)

\* GET /analytics/campaign-performance
get_campaign_performance(token, n, reply) ==
    /\ Mounted("marketing")
    /\ DocInsights("get_campaign_performance", token, "marketing", n, reply)

MarketingNext ==
    \/ \E t \in RequestTokens("marketing") :
         \E c \in Bodies(Guard(t, "marketing"), ContentRequests),
            r \in Bodies(Guard(t, "marketing"), TextReplies),
            a \in Bodies(Guard(t, "marketing"), SeoReplies) :
            generate_content(t, c, r, a)
    \/ \E t \in RequestTokens("marketing"), i \in Ids : get_content(t, i)
    \/ \E t \in RequestTokens("marketing") :
         \E c \in Bodies(Guard(t, "marketing"), CampaignRequests),
            r \in Bodies(Guard(t, "marketing"), TextReplies) :
            create_campaign(t, c, r)
    \/ \E t \in RequestTokens("marketing") :
         \E r \in Bodies(Guard(t, "marketing"), TextReplies) : analyze_seo(t, r)
    \/ \E t \in RequestTokens("marketing"), i \in Ids :
         \E r \in Bodies(Guard(t, "marketing"), TextReplies) :
            get_campaign_performance(t, i, r)

-----------------------------------------------------------------------------
(* backend/api/sales_funnel.py, backend/services/ai_service.py             *)

\* Depends(get_current_user) of the funnel: the bearer credential verified as
\* the identity service verifies it.
funnel_get_current_user(token) == get_current_user(token)

FunnelLeadCreates ==
    [name : {"n1"}, email : {"e1", "e2"}, company : {"c1"}, source : {"website"},
     industry : {"i1"}]

\* Lead(**lead.dict()) with the column defaults.
NewFunnelLead(lead, at) ==
    [name |-> lead.name, email |-> lead.email, company |-> lead.company,
     source |-> lead.source, status |-> "new", score |-> 0,
     industry |-> lead.industry, created_at |-> at, updated_at |-> at,
     ai_score |-> 0, ai_segment |-> None, ai_next_action |-> None]

\* PydanticOutputParser: the reply parses into the result object.
parser_ok(reply) == reply.ok /\ reply.kind = "json"

\* A funnel request: its commit comes first, the scoring call after it.
FunnelResponse(ep, token, body, calls, id, payload, before, wrote) ==
    [Response(ep, token, 200, body, calls, id, payload, before, wrote)
        EXCEPT !.order = PipelineCommitFirst(calls, wrote)]

\* score_lead(lead) and prioritize_deal(deal) as the handler awaits them: the
\* chain raises, or its result is set on the object the request's session
\* holds and returned. The commit inside is of a session of its own, which
\* holds no change; the request's session is closed without another commit.
Scored(r, reply) ==
    IF parser_ok(reply) THEN [r EXCEPT !.scored = <<reply.val>>]
    ELSE Failed(r, FaultOf(reply, "OutputParserException"))

\* A commit that is undone when the scoring call after it fails.
CommitUnlessScoreFails(commit, reply) ==
    IF parser_ok(reply) THEN commit ELSE UNCHANGED <<db, seq, now>>

\* db.commit() ahead of the awaited scoring call: no except or rollback
\* surrounds the call, so the commit stands whatever the call returns.
CommitThenScore(commit, reply) == commit

\* POST /leads/ of the funnel
funnel_create_lead(token, lead, reply) ==
    /\ Mounted("funnel")
    /\ LET au == funnel_get_current_user(token).status IN
       IF au # 200 THEN Reject("funnel_create_lead", token, au, 0)
       ELSE IF \E i \in DOMAIN db.leads : db.leads[i].email = lead.email
            THEN Fault("funnel_create_lead", token, "IntegrityError", 0, 0)
       ELSE /\ now <= MaxCommits
            /\ CommitThenScore(Insert("leads", NewFunnelLead(lead, now)), reply)
            /\ resp' = Scored(FunnelResponse("funnel_create_lead", token, "row", 1,
                                             seq.leads, lead, {}, TRUE), reply)
            /\ UNCHANGED docs

\* GET /leads/{lead_id} of the funnel
funnel_get_lead(token, id) ==
    /\ Mounted("funnel")
    /\ LET au == funnel_get_current_user(token).status IN
       IF au # 200 THEN Reject("funnel_get_lead", token, au, id)
       ELSE GetById("funnel_get_lead", token, "leads", id)

DealStages == {"lead", "engaged"}

DealCreates == [lead_id : Ids, amount : {100}, stage : {"lead"}]

\* Deal(**deal.dict(), owner_id=current_user.id) with the column defaults.
NewDeal(deal, owner, at) ==
    [lead_id |-> deal.lead_id, stage |-> deal.stage, amount |-> deal.amount,
     probability |-> 0, owner_id |-> owner, created_at |-> at, updated_at |-> at,
     ai_priority |-> 0, ai_next_action |-> None, ai_staleness_score |-> 0]

\* prioritize_deal(deal) for a deal whose lead_id resolves to nothing: deal.lead
\* is None and lead.name raises before the gateway is called.
Prioritized(r, lead_id, reply) ==
    IF Lookup("leads", lead_id) = {}
    THEN Failed([r EXCEPT !.calls = 0,
                          !.order = PipelineCommitFirst(0, r.wrote)], "AttributeError")
    ELSE Scored(r, reply)

\* POST /deals/: a lead_id that resolves to nothing fails the commit where the
\* store enforces the reference (enforced).
create_deal(token, deal, enforced, reply) ==
    /\ Mounted("funnel")
    /\ LET au == funnel_get_current_user(token) IN
       IF au.status # 200 THEN Reject("create_deal", token, au.status, 0)
       ELSE IF Lookup("leads", deal.lead_id) = {} /\ enforced
            THEN Fault("create_deal", token, "IntegrityError", 0, 0)
       ELSE /\ now <= MaxCommits
            /\ CommitThenScore(Insert("deals", NewDeal(deal, Users[au.user].id, now)),
                               reply)
            /\ resp' = Prioritized(FunnelResponse("create_deal", token, "row", 1,
                                                  seq.deals, deal, {}, TRUE),
                                   deal.lead_id, reply)
            /\ UNCHANGED docs

\* PUT /deals/{deal_id}/stage
update_deal_stage(token, id, stage, reply) ==
    /\ Mounted("funnel")
    /\ LET au == funnel_get_current_user(token).status
           payload == [f \in {"stage"} |-> stage]
       IN
       IF au # 200 THEN Reject("update_deal_stage", token, au, id)
       ELSE IF Lookup("deals", id) = {} THEN Abort("update_deal_stage", token, 404, 0, id)
       ELSE /\ now <= MaxCommits
            /\ CommitThenScore(
                  /\ db' = [db EXCEPT !.deals[id] = ApplyUpdate(@, payload)]
                  /\ now' = now + 1
                  /\ seq' = seq,
                  reply)
            /\ resp' = Prioritized(FunnelResponse("update_deal_stage", token, "row", 1,
                                                  id, payload, Lookup("deals", id),
                                                  db.deals[id].stage # stage),
                                   db.deals[id].lead_id, reply)
            /\ UNCHANGED docs

InteractionCreates == [lead_id : Ids, type : {"call"}, content : {"hello"}]

\* LeadInteraction(**interaction.dict()) with the column defaults.
NewInteraction(interaction, at) ==
    [lead_id |-> interaction.lead_id, type |-> interaction.type,
     content |-> interaction.content, timestamp |-> at, sentiment |-> None,
     engagement_score |-> None]

\* POST /interactions/: the lead is re-scored when lead_id resolves to one.
create_interaction(token, interaction, enforced, reply) ==
    /\ Mounted("funnel")
    /\ LET au == funnel_get_current_user(token).status
           known == Lookup("leads", interaction.lead_id) # {}
       IN
       IF au # 200 THEN Reject("create_interaction", token, au, 0)
       ELSE IF ~known /\ enforced
            THEN Fault("create_interaction", token, "IntegrityError", 0, 0)
       ELSE /\ now <= MaxCommits
            /\ CommitThenScore(Insert("interactions", NewInteraction(interaction, now)),
                               reply)
            /\ resp' = IF known
                       THEN Scored(FunnelResponse("create_interaction", token, "row", 1,
                                                  seq.interactions, interaction, {},
                                                  TRUE), reply)
                       ELSE FunnelResponse("create_interaction", token, "row", 0,
                                           seq.interactions, interaction, {}, TRUE)
            /\ UNCHANGED docs

\* GET /leads/{lead_id}/ai-insights: score_lead, then two calls that return
\* None.
get_lead_ai_insights(token, id, reply) ==
    /\ Mounted("funnel")
    /\ LET au == funnel_get_current_user(token).status IN
       IF au # 200 THEN Reject("get_lead_ai_insights", token, au, id)
       ELSE IF Lookup("leads", id) = {}
            THEN Abort("get_lead_ai_insights", token, 404, 0, id)
       ELSE /\ resp' = Scored(FunnelResponse("get_lead_ai_insights", token, "dict", 1,
                                             id, NoPayload, Lookup("leads", id), FALSE),
                              reply)
            /\ UNCHANGED <<storeVars, now>>

\* GET /deals/{deal_id}/ai-insights: prioritize_deal, then a call that returns
\* None.
get_deal_ai_insights(token, id, reply) ==
    /\ Mounted("funnel")
    /\ LET au == funnel_get_current_user(token).status IN
       IF au # 200 THEN Reject("get_deal_ai_insights", token, au, id)
       ELSE IF Lookup("deals", id) = {}
            THEN Abort("get_deal_ai_insights", token, 404, 0, id)
       ELSE /\ resp' = Prioritized(FunnelResponse("get_deal_ai_insights", token, "dict",
                                                  1, id, NoPayload,
                                                  Lookup("deals", id), FALSE),
                                   db.deals[id].lead_id, reply)
            /\ UNCHANGED <<storeVars, now>>

\* The gateway replies worth drawing for a funnel request.
FunnelReplies(t) == Bodies(funnel_get_current_user(t).status, JsonReplies)

FunnelNext ==
    \/ \E t \in RequestTokens("funnel") :
         \E c \in Bodies(funnel_get_current_user(t).status, FunnelLeadCreates),
            r \in FunnelReplies(t) :
            funnel_create_lead(t, c, r)
    \/ \E t \in RequestTokens("funnel"), i \in Ids : funnel_get_lead(t, i)
    \/ \E t \in RequestTokens("funnel") :
         \E c \in Bodies(funnel_get_current_user(t).status, DealCreates),
            e \in Bodies(funnel_get_current_user(t).status, BOOLEAN),
            r \in FunnelReplies(t) :
            create_deal(t, c, e, r)
    \/ \E t \in RequestTokens("funnel"), i \in Ids :
         \E s \in Bodies(funnel_get_current_user(t).status, DealStages),
            r \in FunnelReplies(t) :
            update_deal_stage(t, i, s, r)
    \/ \E t \in RequestTokens("funnel") :
         \E c \in Bodies(funnel_get_current_user(t).status, InteractionCreates),
            e \in Bodies(funnel_get_current_user(t).status, BOOLEAN),
            r \in FunnelReplies(t) :
            create_interaction(t, c, e, r)
    \/ \E t \in RequestTokens("funnel"), i \in Ids :
         \E r \in FunnelReplies(t) : get_lead_ai_insights(t, i, r)
    \/ \E t \in RequestTokens("funnel"), i \in Ids :
         \E r \in FunnelReplies(t) : get_deal_ai_insights(t, i, r)

-----------------------------------------------------------------------------
(* app/services/ai_service.py: the forecast arithmetic                     *)
(* Floating-point values are modelled as exact rationals n/d, the          *)
(* infinities and not-a-number; a standard deviation is held as its square. *)

NaN == [k |-> "nan", n |-> 0, d |-> 1]
Inf(sign) == [k |-> "inf", n |-> sign, d |-> 1]

Abs(x) == IF x < 0 THEN -x ELSE x

RECURSIVE GCD(_, _)
GCD(a, b) == IF b = 0 THEN a ELSE GCD(b, a % b)

\* The rational n/d (d # 0) in lowest terms with a positive denominator.
Num(n, d) ==
    LET g == GCD(Abs(n), Abs(d))
        s == IF d < 0 THEN -1 ELSE 1
    IN  [k |-> "num", n |-> (s * n) \div g, d |-> (s * d) \div g]

Zero == Num(0, 1)
One == Num(1, 1)

Sign(x) == IF x.n > 0 THEN 1 ELSE IF x.n < 0 THEN -1 ELSE 0

\* x + y
Add(x, y) ==
    IF x.k = "nan" \/ y.k = "nan" THEN NaN
    ELSE IF x.k = "inf" /\ y.k = "inf" THEN (IF x.n = y.n THEN x ELSE NaN)
    ELSE IF x.k = "inf" THEN x
    ELSE IF y.k = "inf" THEN y
    ELSE LET g == GCD(x.d, y.d) IN
         Num(x.n * (y.d \div g) + y.n * (x.d \div g), (x.d \div g) * y.d)

Neg(x) == IF x.k = "nan" THEN NaN ELSE [x EXCEPT !.n = -x.n]

Sub(x, y) == Add(x, Neg(y))

\* x * y
Mul(x, y) ==
    IF x.k = "nan" \/ y.k = "nan" THEN NaN
    ELSE IF x.k = "inf" \/ y.k = "inf"
         THEN (IF Sign(x) * Sign(y) = 0 THEN NaN ELSE Inf(Sign(x) * Sign(y)))
    ELSE LET g == GCD(Abs(x.n), y.d)
             h == GCD(Abs(y.n), x.d)
         IN  Num((x.n \div g) * (y.n \div h), (x.d \div h) * (y.d \div g))

\* x / y for finite x and y
Div(x, y) ==
    IF y.n = 0 THEN (IF x.n = 0 THEN NaN ELSE Inf(Sign(x)))
    ELSE Num(x.n * y.d, x.d * y.n)

\* 1 - sqrt(v), v a variance: kept as the surd it is.
OneMinusSqrt(v) ==
    IF v.k = "nan" THEN NaN
    ELSE IF v.k = "inf" THEN Inf(-1)
    ELSE [k |-> "surd", n |-> v.n, d |-> v.d]

\* x > y: false whenever either side is not-a-number.
Greater(x, y) ==
    IF x.k = "nan" \/ y.k = "nan" THEN FALSE
    ELSE IF x.k = "surd"
         THEN LET r == Sub(One, y) IN          \* sqrt(v) < 1 - y
              /\ r.k = "inf" => r.n > 0
              /\ r.k = "num" => r.n > 0 /\ x.n * r.d * r.d < r.n * r.n * x.d
    ELSE IF y.k = "surd"
         THEN LET r == Sub(One, x) IN          \* sqrt(v) > 1 - x
              /\ r.k = "inf" => r.n < 0
              /\ r.k = "num" => r.n < 0 \/ y.n * r.d * r.d > r.n * r.n * y.d
    ELSE IF x.k = "inf" THEN x.n > 0 /\ y # x
    ELSE IF y.k = "inf" THEN y.n < 0
    ELSE x.n * y.d > y.n * x.d

\* Python's max(a, b): b when b > a, else a.
py_max(a, b) == IF Greater(b, a) THEN b ELSE a

RECURSIVE SumSeq(_)
SumSeq(s) == IF s = <<>> THEN Zero ELSE Add(Head(s), SumSeq(Tail(s)))

\* The values a pandas reduction keeps (skipna).
Valid(s) == SelectSeq(s, LAMBDA x : x.k # "nan")

\* Series.mean()
Mean(s) ==
    IF Valid(s) = <<>> THEN NaN ELSE Mul(SumSeq(Valid(s)), Num(1, Len(Valid(s))))

\* Series.std() squared: the sample variance (ddof = 1), not-a-number for
\* fewer than two values or when a value is infinite.
Variance(s) ==
    LET v == Valid(s)
        m == Mean(s)
    IN  IF Len(v) < 2 \/ m.k # "num" THEN NaN
        ELSE Mul(SumSeq([i \in 1 .. Len(v) |-> Mul(Sub(v[i], m), Sub(v[i], m))]),
                 Num(1, Len(v) - 1))

\* The change in absolute terms, a[i] - a[i-1], in place of the relative one.
pct_change_difference(amounts) ==
    [i \in 1 .. Len(amounts) |->
        IF i = 1 THEN NaN ELSE Num(amounts[i] - amounts[i - 1], 1)]

\* Series.pct_change(): not-a-number first, then a[i] / a[i-1] - 1.
pct_change(amounts) ==
    [i \in 1 .. Len(amounts) |->
        IF i = 1 THEN NaN
        ELSE Sub(Div(Num(amounts[i], 1), Num(amounts[i - 1], 1)), One)]

\* Transactions one run draws its table from: rows of at most MaxTransactions
\* transactions dated in three calendar months.
MaxTransactions == 3
Months == 1 .. 3
Transactions ==
    [date : Months, amount : {100, 110, 300}, type : {"income"}] \cup
    [date : Months, amount : {0, 100}, type : {"expense"}]
Books == UNION { [1 .. n -> Transactions] : n \in 0 .. MaxTransactions }

RECURSIVE Ascending(_)
Ascending(S) ==
    IF S = {} THEN <<>>
    ELSE LET m == CHOOSE x \in S : \A y \in S : x <= y
         IN  <<m>> \o Ascending(S \ {m})

RECURSIVE AmountSum(_, _)
AmountSum(df, period) ==
    IF df = <<>> THEN 0
    ELSE (IF Head(df).date = period THEN Head(df).amount ELSE 0)
         + AmountSum(Tail(df), period)

\* df.groupby(df['date'].dt.to_period('M')).agg({'amount': 'sum'}): one total
\* per month that has a transaction, of every type, in month order.
monthly_data(df) ==
    LET periods == Ascending({ df[i].date : i \in DOMAIN df })
    IN  [i \in 1 .. Len(periods) |-> AmountSum(df, periods[i])]

\* sqrt(v) > q
SqrtGreater(v, q) ==
    /\ v.k = "num"
    /\ q.k = "num"
    /\ q.n < 0 \/ Greater(v, Mul(q, q))

SeasonalWindow == 12

\* _identify_forecast_factors(monthly_data)
identify_forecast_factors(amounts) ==
    LET growth == pct_change(amounts)
        trend == Mean(growth)
        series == [i \in 1 .. Len(amounts) |-> Num(amounts[i], 1)]
        window == SubSeq(series, Len(series) - SeasonalWindow + 1, Len(series))
    IN  (IF Greater(trend, Num(1, 10)) THEN <<"Strong upward trend in revenue">>
         ELSE IF Greater(Num(-1, 10), trend) THEN <<"Declining revenue trend">>
         ELSE <<>>)
        \o (IF Len(amounts) >= SeasonalWindow
               /\ SqrtGreater(Variance(window), Mul(Mean(series), Num(1, 5)))
            THEN <<"Significant seasonal variations">> ELSE <<>>)
        \o (IF SqrtGreater(Variance(growth), Num(1, 5))
            THEN <<"High revenue volatility">> ELSE <<>>)

forecast_revenue_growth_only(amount, growth_rate) == Mul(Num(amount, 1), growth_rate)

\* last_month['amount'] * (1 + last_month['growth_rate'])
forecast_revenue(amount, growth_rate) == Mul(Num(amount, 1), Add(One, growth_rate))

\* last_month['amount'] * 0.8
forecast_expenses(amount) == Mul(Num(amount, 1), Num(4, 5))

confidence_of_swapped(variance) == py_max(OneMinusSqrt(variance), Zero)

\* max(0, 1 - volatility)
confidence_of(variance) == py_max(Zero, OneMinusSqrt(variance))

Forecast(fault, revenue, expenses, confidence, factors, periods) ==
    [fault |-> fault, revenue |-> revenue, expenses |-> expenses,
     confidence |-> confidence, factors |-> factors, periods |-> periods]

NoForecast == Forecast("pending", NaN, NaN, NaN, <<>>, <<>>)

\* No recommendation call has been made yet.
NoRecommendations == [of |-> "none", fault |-> "pending", items |-> <<>>]

\* _generate_forecast(df) for a frame that has its columns.
generate_forecast(df) ==
    LET amounts == monthly_data(df)
        growth == pct_change(amounts)
        last == Len(amounts)
    IN  Forecast("none",
                 forecast_revenue(amounts[last], growth[last]),
                 forecast_expenses(amounts[last]),
                 confidence_of(Variance(growth)),
                 identify_forecast_factors(amounts),
                 amounts)

\* analyze_financial_data(transactions): a frame built from no rows has no
\* columns, and df['type'] raises KeyError.
analyze_financial_data(transactions) ==
    IF transactions = <<>> THEN Forecast("KeyError", NaN, NaN, NaN, <<>>, <<>>)
    ELSE generate_forecast(transactions)

\* One call of the forecast on the transactions the store holds.
AnalyzeFinancialData ==
    /\ mounted = "forecast"
    /\ forecast = NoForecast
    /\ forecast' = analyze_financial_data(db.transactions)
    /\ UNCHANGED <<mounted, now, storeVars, resp, authVars, recommendations, processVars>>

ForecastInit ==
    /\ mounted = "forecast"
    /\ now = 1
    /\ \E book \in Books : db = [transactions |-> book]
    /\ seq = [transactions |-> 1]
    /\ docs = {}
    /\ resp = NoResponse
    /\ authIn = [user |-> Users["usr"], required_role |-> "user"]
    /\ authOut = [done |-> FALSE, value |-> FALSE]
    /\ forecast = NoForecast
    /\ recommendations = NoRecommendations
    /\ sessions = NoSessions
    /\ chain = NoChain

SpecForecast == ForecastInit /\ [][AnalyzeFinancialData]_vars

-----------------------------------------------------------------------------
(* app/services/ai_service.py: the recommendation rules                    *)
(* Dates are whole days on the stores' clock.                               *)

MaxEmployees == 3
MaxInvoices == 4

Categories == {"rent", "salaries", "other"}

\* Transactions of the recommendation rules: expenses of three categories
\* and an income.
CategoryTransactions ==
    [date : {1}, amount : {0, 900, 3000, 3100, 6000, 6100}, type : {"expense"},
     category : Categories] \cup
    [date : {1}, amount : {6000}, type : {"income"}, category : {"other"}]

HireDates == {-400, -365, -364, -200, -100}
Employees == [hire_date : HireDates]

Invoices == [due_date : {-1, 0, 1}, status : {"paid", "pending"}]

SeqsUpTo(S, n) == UNION { [1 .. k -> S] : k \in 0 .. n }

\* AIRecommendation(type=..., message=...): the type and what the message
\* reports (a category and its share, or a count).
AIRecommendation(type, category, share, count) ==
    [type |-> type, category |-> category, share |-> share, count |-> count]

Returned(items) == [fault |-> "none", items |-> items]
Raised(fault) == [fault |-> fault, items |-> <<>>]

\* category_totals: (category, total) pairs in the order the dict first saw
\* each category.
RECURSIVE category_totals(_)
category_totals(expenses) ==
    IF expenses = <<>> THEN <<>>
    ELSE LET before == category_totals(SubSeq(expenses, 1, Len(expenses) - 1))
             expense == expenses[Len(expenses)]
             at == { i \in DOMAIN before : before[i].category = expense.category }
         IN  IF at = {}
             THEN Append(before, [category |-> expense.category,
                                  amount |-> expense.amount])
             ELSE [i \in DOMAIN before |->
                      IF i \in at THEN [before[i] EXCEPT !.amount = @ + expense.amount]
                      ELSE before[i]]

RECURSIVE SumAmounts(_)
SumAmounts(s) == IF s = <<>> THEN 0 ELSE Head(s).amount + SumAmounts(Tail(s))

\* percentage > 0.3
high_spending(percentage) == Greater(percentage, Num(3, 10))

\* _analyze_expenses(transactions)
analyze_expenses(transactions) ==
    LET expenses == SelectSeq(transactions, LAMBDA t : t.type = "expense")
        totals == category_totals(expenses)
        total_expenses == SumAmounts(totals)
        percentage(c) == Div(Num(c.amount, 1), Num(total_expenses, 1))
        flagged == SelectSeq(totals, LAMBDA c : high_spending(percentage(c)))
    IN  IF totals = <<>> THEN Returned(<<>>)
        ELSE IF total_expenses = 0 THEN Raised("ZeroDivisionError")
        ELSE Returned([i \in DOMAIN flagged |->
                 AIRecommendation("expense_optimization", flagged[i].category,
                                  percentage(flagged[i]), 0)])

RECURSIVE SumTenures(_, _)
SumTenures(employees, today) ==
    IF employees = <<>> THEN 0
    ELSE (today - Head(employees).hire_date) + SumTenures(Tail(employees), today)

\* avg_tenure < 365
low_tenure(avg_tenure) == Greater(Num(365, 1), avg_tenure)

\* _analyze_employee_retention(employees)
analyze_employee_retention(employees, today) ==
    IF employees = <<>> THEN Raised("ZeroDivisionError")
    ELSE IF low_tenure(Num(SumTenures(employees, today), Len(employees)))
         THEN Returned(<<AIRecommendation("employee_retention", None, NaN, 0)>>)
         ELSE Returned(<<>>)

overdue_any_status(inv, today) == inv.due_date < today

\* inv.due_date < now and inv.status != 'paid'
overdue(inv, today) == inv.due_date < today /\ inv.status # "paid"

\* _analyze_invoices(invoices)
analyze_invoices(invoices, today) ==
    LET overdue_invoices == SelectSeq(invoices, LAMBDA inv : overdue(inv, today))
    IN  IF overdue_invoices # <<>>
        THEN Returned(<<AIRecommendation("invoice_processing", None, NaN,
                                         Len(overdue_invoices))>>)
        ELSE Returned(<<>>)

\* generate_recommendations(transactions, employees, invoices): the three
\* rules in turn; the first one that raises ends the call.
generate_recommendations(transactions, employees, invoices, today) ==
    LET e == analyze_expenses(transactions)
        r == analyze_employee_retention(employees, today)
        i == analyze_invoices(invoices, today)
    IN  IF e.fault # "none" THEN e
        ELSE IF r.fault # "none" THEN r
        ELSE IF i.fault # "none" THEN i
        ELSE Returned(e.items \o r.items \o i.items)

UserRoles == {"admin", "finance_manager", "hr_manager", "operations_manager"}

\* get_ai_recommendations: the tables the caller's role selects, handed to
\* generate_recommendations.
get_ai_recommendations(role, today) ==
    generate_recommendations(
        IF role \in {"admin", "finance_manager"} THEN db.transactions ELSE <<>>,
        IF role \in {"admin", "hr_manager"} THEN db.employees ELSE <<>>,
        IF role = "hr_manager" THEN <<>> ELSE db.invoices,
        today)

Recommended(of, result) ==
    /\ recommendations = NoRecommendations
    /\ recommendations' = [of |-> of, fault |-> result.fault, items |-> result.items]
    /\ UNCHANGED <<mounted, now, storeVars, resp, authVars, forecast, processVars>>

AnalyzeExpenses ==
    /\ mounted = "expenses"
    /\ Recommended("_analyze_expenses", analyze_expenses(db.transactions))

AnalyzeEmployeeRetention ==
    /\ mounted = "retention"
    /\ Recommended("_analyze_employee_retention",
                   analyze_employee_retention(db.employees, now))

AnalyzeInvoices ==
    /\ mounted = "invoices"
    /\ Recommended("_analyze_invoices", analyze_invoices(db.invoices, now))

GetAiRecommendations(role) ==
    /\ mounted = "dashboard"
    /\ Recommended(role, get_ai_recommendations(role, now))

\* The rows of one run: each rule on its own table, and the dashboard
\* endpoint on three short tables.
RecommendTables ==
    [expenses |-> [transactions : SeqsUpTo(CategoryTransactions, MaxTransactions),
                   employees : {<<>>}, invoices : {<<>>}],
     retention |-> [transactions : {<<>>}, employees : SeqsUpTo(Employees, MaxEmployees),
                    invoices : {<<>>}],
     invoices |-> [transactions : {<<>>}, employees : {<<>>},
                   invoices : SeqsUpTo(Invoices, MaxInvoices)],
     dashboard |-> [transactions : SeqsUpTo({ t \in CategoryTransactions :
                                                 t.amount \in {0, 6000}
                                                 /\ t.category = "other" }, 1),
                    employees : SeqsUpTo({ e \in Employees : e.hire_date = -100 }, 1),
                    invoices : SeqsUpTo({ i \in Invoices : i.status = "pending" }, 1)]]

RecommendInit ==
    /\ mounted \in DOMAIN RecommendTables
    /\ now = 0
    /\ db \in RecommendTables[mounted]
    /\ seq = [transactions |-> 1, employees |-> 1, invoices |-> 1]
    /\ docs = {}
    /\ resp = NoResponse
    /\ authIn = [user |-> Users["usr"], required_role |-> "user"]
    /\ authOut = [done |-> FALSE, value |-> FALSE]
    /\ forecast = NoForecast
    /\ recommendations = NoRecommendations
    /\ sessions = NoSessions
    /\ chain = NoChain

RecommendNext ==
    \/ AnalyzeExpenses
    \/ AnalyzeEmployeeRetention
    \/ AnalyzeInvoices
    \/ \E role \in UserRoles : GetAiRecommendations(role)

SpecRecommend == RecommendInit /\ [][RecommendNext]_vars

-----------------------------------------------------------------------------
SeedTask ==
    [title |-> "t1", description |-> "d1", priority |-> "medium", due_date |-> None]

SeedLead ==
    [email |-> "e1", name |-> "n1", company |-> "c1", phone |-> None, source |-> None]

SeedCustomer ==
    [lead_id |-> 1, company_name |-> "c1", industry |-> "i1", annual_revenue |-> 100,
     customer_since |-> 0, status |-> "active"]

SeedTicket ==
    [customer_id |-> 1, subject |-> "s1", description |-> "d1", category |-> None]

SeedWorkflow ==
    [name |-> "w1", description |-> "d1", trigger_type |-> "manual",
     trigger_config |-> "cfg1", actions |-> <<"a1", "a2">>, is_active |-> TRUE]

Routers == {"erp", "crm", "support", "workflows", "sales", "marketing", "funnel"}

NoRows == [i \in {} |-> None]

\* The tables a router starts with: empty, or holding one row an earlier
\* request of the same router stored.
ErpInit ==
    \E n \in 0 .. 1 :
       /\ db = [tasks |-> [i \in 1 .. n |-> NewTask(SeedTask, Users["mgr"].id, 0)]]
       /\ seq = [tasks |-> n + 1]
       /\ docs = {}

CrmInit ==
    \E n \in 0 .. 1, m \in 0 .. 1 :
       /\ m <= n
       /\ db = [leads |-> [i \in 1 .. n |-> NewLead(SeedLead, 10, 0)],
                customers |-> [i \in 1 .. m |-> NewCustomer(SeedCustomer, 0)]]
       /\ seq = [leads |-> n + 1, customers |-> m + 1]
       /\ docs = {}

\* The tickets table can hold a row stored by another writer of the database.
SupportInit ==
    \E m \in 0 .. 1, k \in 0 .. 1 :
       /\ k <= m
       /\ db = [customers |-> [i \in 1 .. m |-> NewCustomer(SeedCustomer, 0)],
                tickets |-> [i \in 1 .. k |->
                               NewTicket(SeedTicket, "medium", Users["sup"].id, 0)]]
       /\ seq = [customers |-> m + 1, tickets |-> k + 1]
       /\ docs = {}

WorkflowsInit ==
    \E n \in 0 .. 1 :
       /\ db = [workflows |-> [i \in 1 .. n |->
                                 NewWorkflow(SeedWorkflow, Users["adm"].id, 0)]]
       /\ seq = [workflows |-> n + 1, docs |-> 1]
       /\ docs = {}

\* The document store can hold a pipeline an earlier request stored.
SalesInit ==
    \E m \in 0 .. 1, k \in 0 .. 1 :
       /\ db = [customers |-> [i \in 1 .. m |-> NewCustomer(SeedCustomer, 0)]]
       /\ seq = [customers |-> m + 1, docs |-> k + 1]
       /\ docs = { [_id |-> ObjectId(i), kind |-> "pipeline", ref |-> 0,
                    params |-> "p1", content |-> "prose", status |-> "none",
                    created_by |-> Users["sal"].id, created_at |-> 0] : i \in 1 .. k }

\* The document store can hold a content document an earlier request stored.
MarketingInit ==
    \E k \in 0 .. 1 :
       /\ db = [users |-> NoRows]
       /\ seq = [docs |-> k + 1]
       /\ docs = { [_id |-> ObjectId(i), kind |-> "content", ref |-> 80,
                    params |-> "topic1", content |-> "prose", status |-> "none",
                    created_by |-> Users["mkt"].id, created_at |-> 0] : i \in 1 .. k }

FunnelInit ==
    \E n \in 0 .. 1 : \E m \in 0 .. n :
       /\ db = [leads |-> [i \in 1 .. n |->
                             NewFunnelLead([name |-> "n1", email |-> "e1",
                                            company |-> "c1", source |-> "website",
                                            industry |-> "i1"], 0)],
                deals |-> [i \in 1 .. m |->
                             NewDeal([lead_id |-> 1, amount |-> 100,
                                      stage |-> "lead"], 1, 0)],
                interactions |-> NoRows]
       /\ seq = [leads |-> n + 1, deals |-> m + 1, interactions |-> 1]
       /\ docs = {}

Init ==
    /\ mounted \in Routers
    /\ now = 1
    /\ mounted = "erp" => ErpInit
    /\ mounted = "crm" => CrmInit
    /\ mounted = "support" => SupportInit
    /\ mounted = "workflows" => WorkflowsInit
    /\ mounted = "sales" => SalesInit
    /\ mounted = "marketing" => MarketingInit
    /\ mounted = "funnel" => FunnelInit
    /\ resp = NoResponse
    /\ authIn = [user |-> Users["usr"], required_role |-> "user"]
    /\ authOut = [done |-> FALSE, value |-> FALSE]
    /\ forecast = NoForecast
    /\ recommendations = NoRecommendations
    /\ sessions = NoSessions
    /\ chain = NoChain

Next ==
    \/ ErpNext
    \/ CrmNext
    \/ SupportNext
    \/ WorkflowsNext
    \/ SalesNext
    \/ MarketingNext
    \/ FunnelNext

Spec == Init /\ [][Next]_vars

-----------------------------------------------------------------------------
(* services/auth_service.py: check_permissions on its own                  *)

AuthInputs ==
    [user : [id : {1}, email : {"u"}, role : Roles, is_superuser : BOOLEAN,
             is_active : BOOLEAN],
     required_role : Roles]

AuthInit ==
    /\ mounted = "auth"
    /\ now = 1
    /\ db = [users |-> NoRows]
    /\ seq = [users |-> 1]
    /\ docs = {}
    /\ resp = NoResponse
    /\ authIn \in AuthInputs
    /\ authOut = [done |-> FALSE, value |-> FALSE]
    /\ forecast = NoForecast
    /\ recommendations = NoRecommendations
    /\ sessions = NoSessions
    /\ chain = NoChain

\* One call of check_permissions on the drawn arguments.
CheckPermissions ==
    /\ mounted = "auth"
    /\ ~authOut.done
    /\ authOut' = [done |-> TRUE,
                   value |-> check_permissions(authIn.user, authIn.required_role)]
    /\ UNCHANGED <<mounted, now, storeVars, resp, authIn, analyticsVars, processVars>>

SpecAuth == AuthInit /\ [][CheckPermissions]_vars

-----------------------------------------------------------------------------
(* Properties                                                              *)

\* The endpoints that call check_permissions, with the role they require.
GuardedBy ==
    [create_task |-> "manager", update_task |-> "manager", delete_task |-> "manager",
     get_task_insights |-> "manager", get_workload_optimization |-> "manager",
     create_lead |-> "sales", update_lead |-> "sales", create_customer |-> "sales",
     get_lead_insights |-> "sales", get_customer_value_insights |-> "sales",
     update_ticket |-> "support", get_ticket_insights |-> "support",
     get_customer_support_score |-> "support",
     create_workflow |-> "admin", update_workflow |-> "admin",
     get_workflow_performance |-> "admin", get_workflow_optimization |-> "admin",
     create_pipeline |-> "sales", create_proposal |-> "sales",
     get_pipeline_performance |-> "sales", get_customer_insights |-> "sales",
     generate_content |-> "marketing", create_campaign |-> "marketing",
     analyze_seo |-> "marketing", get_campaign_performance |-> "marketing"]

\* The caller of a request is an active stored user who fails the role check.
CheckFails(token, role) ==
    /\ get_current_active_user(token).status = 200
    /\ ~check_permissions(Actor(token), role)

\* C1: check_permissions(actor, required) is true exactly when the actor's role
\* equals the required role or the actor is a superuser, whatever the actor's
\* other fields are.
C1_CheckPermissionsIffRoleOrSuperuser ==
    authOut.done =>
       (authOut.value <=> (authIn.user.role = authIn.required_role
                           \/ authIn.user.is_superuser))

C1_Witness ==
    /\ authOut.done
    /\ authOut.value
    /\ authIn.user.is_superuser
    /\ authIn.user.role # authIn.required_role

\* C2: in an endpoint guarded by check_permissions, a request whose caller
\* fails the check ends 403, makes no gateway call and leaves the relational
\* and the document store as they were.
C2_ForbiddenChangesNothing ==
    [][(resp'.ep \in DOMAIN GuardedBy /\ CheckFails(resp'.token, GuardedBy[resp'.ep]))
          => (resp'.status = 403 /\ resp'.calls = 0 /\ ~resp'.wrote
              /\ UNCHANGED storeVars)]_vars

C2_Witness ==
    /\ resp.ep \in {"create_lead", "delete_task"}
    /\ CheckFails(resp.token, GuardedBy[resp.ep])
    /\ resp.status = 403

\* The endpoints that mutate a store or produce an analytics result.
MutatingOrAnalytics ==
    DOMAIN GuardedBy \cup
    {"create_ticket", "execute_workflow", "funnel_create_lead", "create_deal"}

\* The caller of a request is a stored user who fails the role check of the
\* router's capability.
LacksCapability(token) ==
    /\ get_current_user(token).status = 200
    /\ ~check_permissions(Users[get_current_user(token).user], RequiredRole[mounted])

\* C3: no request of a mutating or analytics endpoint whose caller fails the
\* role check of the endpoint's capability writes a record or a document or
\* produces an analytics result.
C3_NoEffectWithoutCapability ==
    (resp.ep \in MutatingOrAnalytics /\ LacksCapability(resp.token))
       => (~resp.wrote /\ resp.body # "insights")

\* A plain user's create_deal is committed.
C3_Witness ==
    /\ resp.ep = "create_deal"
    /\ LacksCapability(resp.token)
    /\ resp.wrote
    /\ resp.status = 200

\* The table a PUT endpoint updates.
UpdateTable ==
    [update_task |-> "tasks", update_lead |-> "leads", update_ticket |-> "tickets",
     update_workflow |-> "workflows"]

\* The row the last request found before it ran, and the row it left.
RowBefore == CHOOSE r \in resp.before : TRUE
RowAfter == db[UpdateTable[resp.ep]][resp.id]

Updated == resp.ep \in DOMAIN UpdateTable /\ resp.status = 200

\* The fields an update rewrites without the payload naming them: the store's
\* update stamp, and the score of a lead whose payload names company.
Derived ==
    {"updated_at"} \cup
    (IF resp.ep = "update_lead" /\ Rescores(resp.payload) THEN {"score"} ELSE {})

\* C4 as stated: every field the payload does not mention keeps its value.
C4_UnmentionedFieldsIdentical ==
    Updated =>
       \A f \in DOMAIN RowBefore \ DOMAIN resp.payload : RowAfter[f] = RowBefore[f]

\* C4: after an update commits, every field the payload does not mention keeps
\* its pre-update value, except updated_at, which is restamped exactly when a
\* column changed, and the score of a crm lead whose payload names company.
C4_UnmentionedFieldsKept ==
    Updated =>
       /\ \A f \in DOMAIN RowBefore \ (DOMAIN resp.payload \cup Derived) :
             RowAfter[f] = RowBefore[f]
       /\ RowAfter.updated_at # RowBefore.updated_at
             <=> \E f \in DOMAIN RowBefore \ {"updated_at"} : RowAfter[f] # RowBefore[f]

C4_Witness ==
    /\ Updated
    /\ resp.ep \in {"update_task", "update_lead"}
    /\ DOMAIN resp.payload # {}
    /\ \E f \in DOMAIN RowBefore \ (DOMAIN resp.payload \cup Derived) :
          RowBefore[f] # None
    /\ \E f \in DOMAIN resp.payload : RowAfter[f] # RowBefore[f]

\* The table a GET by id of the relational routers reads.
GetTable ==
    [get_task |-> "tasks", get_lead |-> "leads", get_customer |-> "customers",
     get_ticket |-> "tickets", get_workflow |-> "workflows",
     funnel_get_lead |-> "leads"]

DocGets == {"get_pipeline", "get_proposal", "get_content"}

\* The id of the last request resolves to nothing in the store it reads.
Unresolved ==
    \/ resp.ep \in DOMAIN GetTable /\ Lookup(GetTable[resp.ep], resp.id) = {}
    \/ resp.ep \in DocGets /\ FindOneByStr(StrOf(ObjectId(resp.id))) = {}

\* C5: a GET by id of an authenticated caller for an id that resolves to no
\* stored record ends 404 with an error body, never with a success.
C5_UnknownIdIsNotFound ==
    (Unresolved /\ resp.status \notin {400, 401})
       => (resp.status = 404 /\ resp.body = "error")

C5_Witness ==
    /\ resp.ep \in {"get_task", "get_workflow", "funnel_get_lead"}
    /\ Unresolved
    /\ resp.status = 404

\* C6: a get by the string id a create returned retrieves the stored document:
\* a GET of an authenticated caller whose id is the string of a stored
\* document's _id ends 200.
C6_RoundTrip ==
    (resp.ep \in DocGets /\ Authenticated(resp.token) = 200
        /\ FindOneByStr(StrOf(ObjectId(resp.id))) # {})
       => resp.status = 200

\* The sales holder reads back a pipeline that is stored and gets 404.
C6_Witness ==
    /\ resp.ep = "get_pipeline"
    /\ Authenticated(resp.token) = 200
    /\ \E d \in docs : d.kind = "pipeline" /\ StrOf(d._id) = StrOf(ObjectId(resp.id))
    /\ resp.status = 404

\* The bearer credential verifies: it is present, signed, not expired, and its
\* subject is a stored user.
Verifies(token) ==
    /\ token.present
    /\ token.signed
    /\ ~token.expired
    /\ token.sub \in Emails

\* C7: a request ends 401 exactly when its credential does not verify, and
\* then it makes no gateway call and leaves both stores as they were.
C7_FailsClosed ==
    [][/\ resp'.status = 401 <=> (resp'.ep # "none" /\ ~Verifies(resp'.token))
       /\ resp'.status = 401
             => (resp'.calls = 0 /\ ~resp'.wrote /\ resp'.body = "error"
                 /\ UNCHANGED storeVars)]_vars

C7_Witness ==
    /\ resp.status = 401
    /\ resp.token.present
    /\ resp.token.sub \in Emails
    /\ ~resp.token.signed \/ resp.token.expired

\* The monthly series the last forecast aggregated has fewer than two periods.
FewerThanTwoPeriods ==
    Cardinality({ db.transactions[i].date : i \in DOMAIN db.transactions }) < 2

\* C8: for transactions of 0 or 1 monthly periods the forecast fails with
\* InsufficientData and returns no value.
C8_InsufficientData ==
    (forecast.fault # "pending" /\ FewerThanTwoPeriods)
       => forecast.fault = "InsufficientData"

\* One period: a forecast is returned, with a not-a-number revenue.
C8_Witness ==
    /\ forecast.fault = "none"
    /\ Len(forecast.periods) = 1
    /\ forecast.revenue = NaN
    /\ forecast.confidence = Zero

\* The last and the one-before-last monthly total of the forecast's series.
LastAmount == forecast.periods[Len(forecast.periods)]
PreviousAmount == forecast.periods[Len(forecast.periods) - 1]

\* C9: for a series of at least two periods whose previous total is not zero,
\* predicted revenue is last * (1 + (last - previous) / previous), that is
\* last * last / previous, and predicted expenses are last * 4 / 5; the series
\* 100, 110 has growth 1/10, revenue 121 and expenses 88.
C9_RevenueAndExpenses ==
    (forecast.fault = "none" /\ Len(forecast.periods) >= 2 /\ PreviousAmount # 0)
       => /\ forecast.revenue.k = "num"
          /\ forecast.revenue.n * PreviousAmount
                = LastAmount * LastAmount * forecast.revenue.d
          /\ forecast.expenses.k = "num"
          /\ forecast.expenses.n * 5 = LastAmount * 4 * forecast.expenses.d
          /\ forecast.periods = <<100, 110>>
                => /\ pct_change(forecast.periods)[2] = Num(1, 10)
                   /\ forecast.revenue = Num(121, 1)
                   /\ forecast.expenses = Num(88, 1)

C9_Witness ==
    /\ forecast.fault = "none"
    /\ forecast.periods = <<100, 110>>
    /\ forecast.revenue = Num(121, 1)

\* The growth rates of the forecast's series that are numbers, and their
\* sample variance by the sum-of-squares formula.
Rates == Valid(pct_change(forecast.periods))

SumOfSquares == SumSeq([i \in 1 .. Len(Rates) |-> Mul(Rates[i], Rates[i])])

SampleVariance ==
    Mul(Sub(SumOfSquares,
            Mul(Mul(SumSeq(Rates), SumSeq(Rates)), Num(1, Len(Rates)))),
        Num(1, Len(Rates) - 1))

StddevDefined == Len(Rates) >= 2 /\ \A i \in 1 .. Len(Rates) : Rates[i].k = "num"

\* C10: a returned confidence is a number in [0, 1]: 1 - stddev of the growth
\* rates where that is positive, and 0 where the deviation is 1 or more or is
\* not defined (fewer than two rates, an infinite rate).
C10_ConfidenceInUnitInterval ==
    forecast.fault = "none" =>
       /\ forecast.confidence.k \in {"num", "surd"}
       /\ 0 <= forecast.confidence.n
       /\ forecast.confidence.n <= forecast.confidence.d
       /\ forecast.confidence.k = "num" => forecast.confidence = Zero
       /\ (StddevDefined /\ SampleVariance.n < SampleVariance.d)
             => forecast.confidence = OneMinusSqrt(SampleVariance)
       /\ (StddevDefined /\ SampleVariance.n >= SampleVariance.d)
             => forecast.confidence = Zero

C10_Witness ==
    /\ forecast.fault = "none"
    /\ StddevDefined
    /\ forecast.confidence.k = "surd"
    /\ 0 < forecast.confidence.n

\* The deviation is above 1 and the confidence is clamped to 0.
C10_WitnessClamped ==
    /\ forecast.fault = "none"
    /\ StddevDefined
    /\ SampleVariance.n > SampleVariance.d
    /\ forecast.confidence = Zero

-----------------------------------------------------------------------------
(* C11 *)
\* The positive constants the amounts are multiplied by.
Scales == {2, 3}

\* The same transactions with every amount multiplied by c.
Scaled(df, c) == [i \in DOMAIN df |-> [df[i] EXCEPT !.amount = c * @]]

TrendAndVolatility(factors) ==
    SelectSeq(factors, LAMBDA f : f # "Significant seasonal variations")

\* C11: the forecast is scale-invariant. For every stored series and every
\* positive constant c, the forecast of the series with every amount multiplied
\* by c has the same confidence and the same trend and volatility factors as
\* the forecast of the series itself, and its revenue and expenses are c times
\* the revenue and expenses of that forecast.
C11_ScaleInvariant ==
    forecast.fault # "pending" =>
        \A c \in Scales :
            LET scaled == analyze_financial_data(Scaled(db.transactions, c))
            IN  /\ scaled.fault = forecast.fault
                /\ scaled.confidence = forecast.confidence
                /\ TrendAndVolatility(scaled.factors) = TrendAndVolatility(forecast.factors)
                /\ scaled.revenue = Mul(Num(c, 1), forecast.revenue)
                /\ scaled.expenses = Mul(Num(c, 1), forecast.expenses)

\* A forecast over three periods with a confidence strictly between 0 and 1,
\* a factor in its list and a finite non-zero revenue that the scaled series
\* triples.
C11_Witness ==
    /\ forecast.fault = "none"
    /\ Len(forecast.periods) = 3
    /\ forecast.confidence.k = "surd"
    /\ forecast.factors # <<>>
    /\ forecast.revenue.k = "num"
    /\ forecast.revenue.n > 0
    /\ analyze_financial_data(Scaled(db.transactions, 3)).revenue
           = Mul(Num(3, 1), forecast.revenue)
    /\ analyze_financial_data(Scaled(db.transactions, 3)).revenue # forecast.revenue

-----------------------------------------------------------------------------
(* C12 *)
\* The summed amount of the stored expense transactions of a category, and of
\* all of them.
RECURSIVE ExpenseSum(_, _)
ExpenseSum(transactions, cats) ==
    IF transactions = <<>> THEN 0
    ELSE (IF Head(transactions).type = "expense" /\ Head(transactions).category \in cats
          THEN Head(transactions).amount ELSE 0)
         + ExpenseSum(Tail(transactions), cats)

\* Where the stored transactions first have an expense of the category.
FirstExpense(c) ==
    CHOOSE i \in DOMAIN db.transactions :
        /\ db.transactions[i].type = "expense" /\ db.transactions[i].category = c
        /\ \A j \in 1 .. (i - 1) :
              ~(db.transactions[j].type = "expense" /\ db.transactions[j].category = c)

\* The categories whose expenses are strictly more than 30% of all expenses.
OverThirtyPercent ==
    { c \in Categories :
        10 * ExpenseSum(db.transactions, {c}) > 3 * ExpenseSum(db.transactions, Categories) }

\* C12: the expense rule returns one recommendation for exactly the expense
\* categories whose summed amount is strictly more than 30% of the total of
\* all expense transactions, in the order of each category's first
\* occurrence, whatever the non-expense transactions are.
C12_ExpenseRecommendations ==
    recommendations.of = "_analyze_expenses" =>
        /\ recommendations.fault = "none"
        /\ Len(recommendations.items) = Cardinality(OverThirtyPercent)
        /\ \A i \in DOMAIN recommendations.items :
              /\ recommendations.items[i].type = "expense_optimization"
              /\ recommendations.items[i].category \in OverThirtyPercent
        /\ \A i, j \in DOMAIN recommendations.items :
              i < j => FirstExpense(recommendations.items[i].category)
                          < FirstExpense(recommendations.items[j].category)

\* Expenses are stored and all of them are of amount zero: the rule raises
\* instead of returning no recommendation.
C12_Witness ==
    /\ recommendations.of = "_analyze_expenses"
    /\ \E i \in DOMAIN db.transactions : db.transactions[i].type = "expense"
    /\ ExpenseSum(db.transactions, Categories) = 0
    /\ recommendations.fault = "ZeroDivisionError"

-----------------------------------------------------------------------------
(* C13 *)
\* The tenures in days of the stored employees.
Tenures == [i \in DOMAIN db.employees |-> now - db.employees[i].hire_date]

RECURSIVE SumInts(_)
SumInts(s) == IF s = <<>> THEN 0 ELSE Head(s) + SumInts(Tail(s))

\* The mean of the tenures is strictly below 365 days.
MeanTenureBelowYear ==
    Tenures # <<>> /\ SumInts(Tenures) < 365 * Len(Tenures)

\* C13: the retention rule returns exactly one retention recommendation when
\* the mean tenure in days over all given employees is strictly below 365,
\* and returns none otherwise.
C13_RetentionRecommendation ==
    recommendations.of = "_analyze_employee_retention" =>
        /\ recommendations.fault = "none"
        /\ recommendations.items =
              IF MeanTenureBelowYear
              THEN <<AIRecommendation("employee_retention", None, NaN, 0)>>
              ELSE <<>>

\* No employee is given: the rule raises instead of returning no
\* recommendation.
C13_Witness ==
    /\ recommendations.of = "_analyze_employee_retention"
    /\ db.employees = <<>>
    /\ recommendations.fault = "ZeroDivisionError"

-----------------------------------------------------------------------------
(* C14 *)
\* The stored invoices that are past due and not paid.
PastDueUnpaid ==
    { i \in DOMAIN db.invoices :
        db.invoices[i].due_date < now /\ db.invoices[i].status # "paid" }

\* C14: the invoice rule returns a single recommendation if and only if at
\* least one invoice has a due date before now and a status other than paid,
\* and the count it reports is the number of such invoices; paid past-due
\* invoices and invoices due in the future are not counted.
C14_InvoiceFollowup ==
    recommendations.of = "_analyze_invoices" =>
        /\ recommendations.fault = "none"
        /\ recommendations.items # <<>> <=> PastDueUnpaid # {}
        /\ Len(recommendations.items) <= 1
        /\ \A i \in DOMAIN recommendations.items :
              /\ recommendations.items[i].type = "invoice_processing"
              /\ recommendations.items[i].count = Cardinality(PastDueUnpaid)

\* Two unpaid past-due invoices among a paid past-due one and one due in the
\* future: the recommendation reports 2.
C14_Witness ==
    /\ recommendations.of = "_analyze_invoices"
    /\ Len(db.invoices) = 4
    /\ Cardinality(PastDueUnpaid) = 2
    /\ \E i \in DOMAIN db.invoices :
          db.invoices[i].due_date < now /\ db.invoices[i].status = "paid"
    /\ \E i \in DOMAIN db.invoices : db.invoices[i].due_date > now
    /\ Len(recommendations.items) = 1
    /\ recommendations.items[1].count = 2

-----------------------------------------------------------------------------
(* C15 *)
\* The routers main.py mounts, whose faults reach global_exception_handler.
MainRouters == {"erp", "crm", "support", "workflows", "sales", "marketing"}

\* C15: a fault raised and not caught inside a request handler, at whatever
\* point of the request it occurs, produces a 500 response whose body carries
\* the fault's message; every request ends with a response, and no such fault
\* yields a success status.
C15_UncaughtFaultIs500 ==
    mounted \in MainRouters =>
        /\ resp.raised # None => (resp.status = 500 /\ resp.body = resp.raised)
        /\ resp.ep # "none" => resp.status \in {200, 400, 401, 403, 404, 500}

\* A fault after the gateway call returned and the document was inserted: the
\* returned proposal fails response validation and the request answers 500
\* with that fault's message.
C15_Witness ==
    /\ resp.ep = "create_proposal"
    /\ resp.raised = "ResponseValidationError"
    /\ resp.calls = 1
    /\ resp.wrote
    /\ resp.status = 500
    /\ resp.body = "ResponseValidationError"

-----------------------------------------------------------------------------
(* C16 *)
\* In the last request, every gateway call returned before the commit.
GeneratedBeforePersisted ==
    \A i, j \in DOMAIN resp.order :
        (resp.order[i] = "gateway" /\ resp.order[j] = "commit") => i < j

\* In the last request, the commit came before every gateway call.
PersistedBeforeGenerated ==
    \A i, j \in DOMAIN resp.order :
        (resp.order[i] = "gateway" /\ resp.order[j] = "commit") => j < i

\* C16 as stated: in every endpoint that takes the AI branch, the commit of
\* the entity mutation or artifact insertion happens only after the gateway
\* call has returned, never before it.
C16_PersistedOnlyAfterGenerated == GeneratedBeforePersisted

\* C16, amended: in the endpoints of the erp, crm, support, workflows, sales
\* and marketing routers the commit happens only after the gateway calls have
\* returned; in the sales-funnel endpoints the commit happens before the
\* gateway call.
C16_PersistedAfterGeneratedExceptFunnel ==
    /\ mounted \in MainRouters => GeneratedBeforePersisted
    /\ mounted = "funnel" => PersistedBeforeGenerated

\* A lead of the crm router scored by the gateway and then committed.
C16_Witness ==
    /\ resp.ep = "create_lead"
    /\ resp.status = 200
    /\ resp.order = <<"gateway", "commit">>
    /\ resp.id \in DOMAIN db.leads

-----------------------------------------------------------------------------
(* C17 *)
LeadScoring == {"funnel_create_lead", "create_interaction", "get_lead_ai_insights"}
DealScoring == {"create_deal", "update_deal_stage", "get_deal_ai_insights"}

\* The annotation the relational store holds for the record the last scoring
\* call was about: a lead's ai_score, a deal's ai_priority.
StoredAnnotation ==
    IF resp.ep = "create_interaction" THEN db.leads[resp.payload.lead_id].ai_score
    ELSE IF resp.ep \in LeadScoring THEN db.leads[resp.id].ai_score
    ELSE db.deals[resp.id].ai_priority

\* C17: after any sequence of successful scoring calls (score_lead on a lead,
\* prioritize_deal on a deal), the annotation held in the relational store for
\* that record equals the result of the last scoring call that completed.
C17_AnnotationIsLastScore ==
    (resp.ep \in LeadScoring \cup DealScoring /\ resp.scored # <<>>)
        => StoredAnnotation = resp.scored[1]

\* A lead created and scored: the call returned a result, the request answered
\* 200, and the stored row still has the column default.
C17_Witness ==
    /\ resp.ep = "funnel_create_lead"
    /\ resp.status = 200
    /\ resp.scored = <<7>>
    /\ db.leads[resp.id].ai_score = 0
    /\ db.leads[resp.id].ai_segment = None

-----------------------------------------------------------------------------
(* C18 *)
CommitFirstEndpoints ==
    {"funnel_create_lead", "create_deal", "update_deal_stage", "create_interaction"}

\* What can leave score_lead or prioritize_deal once the commit is done.
ScoringFaults == {"APIError", "OutputParserException", "AttributeError"}

FunnelTable(ep) ==
    CASE ep = "funnel_create_lead" -> "leads"
      [] ep = "create_interaction" -> "interactions"
      [] OTHER -> "deals"

FailedAtScoringCall ==
    /\ resp.ep \in CommitFirstEndpoints
    /\ resp.status = 500
    /\ resp.raised \in ScoringFaults

\* C18: a sales-funnel request (create_lead, create_deal, update_deal_stage,
\* create_interaction) that fails at the scoring call after its commit leaves
\* the committed record or stage change in the store: nothing is rolled back
\* across the AI-call boundary.
C18_CommitSurvivesFailedScoring ==
    FailedAtScoringCall =>
        /\ resp.id \in DOMAIN db[FunnelTable(resp.ep)]
        /\ \A f \in DOMAIN resp.payload :
              db[FunnelTable(resp.ep)][resp.id][f] = resp.payload[f]

\* A stage change answered 500 because the gateway failed, with the new stage
\* stored.
C18_Witness ==
    /\ resp.ep = "update_deal_stage"
    /\ resp.status = 500
    /\ resp.raised = "APIError"
    /\ resp.before # {}
    /\ \A b \in resp.before : b.stage # resp.payload.stage
    /\ db.deals[resp.id].stage = resp.payload.stage

-----------------------------------------------------------------------------
(* erp/router.py: two update_task requests on one task, served by two of   *)
(* the worker processes main.py starts                                     *)

RaceId == 1
RaceToken == create_access_token("mgr")

\* The task both requests name, as the store holds it before either.
RaceRow == NewTask(SeedTask, Users["mgr"].id, 0)

\* A request as it arrives: nothing queried, nothing committed.
Arrived(payload) ==
    [payload |-> payload, pc |-> "received", loaded |-> RaceRow, status |-> 0,
     turn |-> 0]

\* The columns the unit of work finds changed: setattr with the value the
\* session loaded leaves the attribute without history.
ChangedColumns(loaded, payload) ==
    { f \in DOMAIN payload \cap DOMAIN loaded : payload[f] # loaded[f] }

\* db.commit() of a session that loaded `loaded`: UPDATE ... SET the changed
\* columns and the onupdate stamp WHERE id = ..., on the row as it is stored
\* by then; no statement when no column changed.
Flush(stored, loaded, payload) ==
    LET changed == ChangedColumns(loaded, payload) IN
    IF changed = {} THEN stored
    ELSE [f \in DOMAIN stored |->
             IF f \in changed THEN payload[f]
             ELSE IF f = "updated_at" THEN now ELSE stored[f]]

Committed == { j \in DOMAIN sessions : sessions[j].pc = "done" }

\* update_task up to db.query(Task).filter(Task.id == task_id).first()
update_task_query(i) ==
    /\ mounted = "race"
    /\ sessions[i].pc = "received"
    /\ sessions' = [sessions EXCEPT
                       ![i].status = Guard(RaceToken, "manager"),
                       ![i].pc = IF Guard(RaceToken, "manager") = 200
                                 THEN "loaded" ELSE "done",
                       ![i].loaded = db.tasks[RaceId]]
    /\ UNCHANGED <<mounted, now, storeVars, resp, authVars, analyticsVars, chain>>

\* update_task from the setattr loop to db.refresh(db_task)
update_task_commit(i) ==
    /\ mounted = "race"
    /\ sessions[i].pc = "loaded"
    /\ db' = [db EXCEPT !.tasks[RaceId] =
                 Flush(@, sessions[i].loaded, sessions[i].payload)]
    /\ now' = now + 1
    /\ sessions' = [sessions EXCEPT ![i].pc = "done",
                                    ![i].turn = Cardinality(Committed) + 1,
                                    ![i].loaded = db'.tasks[RaceId]]
    /\ UNCHANGED <<mounted, seq, docs, resp, authVars, analyticsVars, chain>>

RaceInit ==
    /\ mounted = "race"
    /\ now = 1
    /\ db = [tasks |-> [i \in 1 .. 1 |-> RaceRow]]
    /\ seq = [tasks |-> 2]
    /\ docs = {}
    /\ resp = NoResponse
    /\ authIn = [user |-> Users["usr"], required_role |-> "user"]
    /\ authOut = [done |-> FALSE, value |-> FALSE]
    /\ forecast = NoForecast
    /\ recommendations = NoRecommendations
    /\ \E p, q \in TaskUpdates : sessions = <<Arrived(p), Arrived(q)>>
    /\ chain = NoChain

RaceNext ==
    \/ \E i \in 1 .. 2 : update_task_query(i)
    \/ \E i \in 1 .. 2 : update_task_commit(i)

SpecRace == RaceInit /\ [][RaceNext]_vars

-----------------------------------------------------------------------------
(* C19 *)
Mentioning(f) == { j \in DOMAIN sessions : f \in DOMAIN sessions[j].payload }

\* The request that committed last among those whose payload mentions f.
LastMentioning(f) ==
    CHOOSE j \in Mentioning(f) : \A k \in Mentioning(f) : sessions[k].turn <= sessions[j].turn

BothCommitted == mounted = "race" /\ Committed = DOMAIN sessions

\* C19: when two update requests on the same record interleave in any order,
\* neither is rejected; after both commit, every field mentioned by at least
\* one payload holds the value written by the request that committed last
\* among those mentioning it, and fields mentioned by neither are unchanged.
C19_LastWriteWins ==
    BothCommitted =>
        /\ \A j \in DOMAIN sessions : sessions[j].status = 200
        /\ \A f \in DOMAIN RaceRow :
              db.tasks[RaceId][f] =
                 IF Mentioning(f) = {} THEN RaceRow[f]
                 ELSE sessions[LastMentioning(f)].payload[f]

\* The first request loaded title t1 and asks for t1, the second wrote t2 in
\* between; the first committed last and the store holds t2, which is also
\* what its own response shows.
C19_Witness ==
    /\ BothCommitted
    /\ sessions[1].payload = [f \in {"title"} |-> "t1"]
    /\ sessions[2].payload = [f \in {"title"} |-> "t2"]
    /\ sessions[1].turn = 2
    /\ sessions[1].status = 200
    /\ db.tasks[RaceId].title = "t2"
    /\ sessions[1].loaded.title = "t2"

-----------------------------------------------------------------------------
(* services/ai_service.py: the AIService a router module builds once, and  *)
(* the calls the requests of one worker process make on it                 *)

\* Calls of generate_content one run makes on the shared service.
MaxCalls == 3

Prompts == {"prompt1", "prompt2"}
Contexts == {None, "ctx1"}

\* json.dumps(context) if context else "No additional context"
context_text(context) ==
    IF context = None THEN "No additional context" ELSE <<"json", context>>

\* PromptTemplate(input_variables=["context", "prompt"]).format: the text
\* rendered from the two variables of the template; the chat_history the
\* chain added to its inputs is not one of them.
format(inputs) == [context |-> inputs.context, prompt |-> inputs.prompt]

\* AIService.generate_content(prompt, context) on the service's own memory:
\* the chain loads self.memory into its inputs, renders and sends the prompt,
\* and after a reply saves the exchange to self.memory. Whether
\* ConversationBufferMemory keeps an exchange that has two input keys or
\* raises on it is the library's choice (kept).
AIService_generate_content(prompt, context, reply, kept) ==
    /\ mounted = "chain"
    /\ Len(chain.request) < MaxCalls
    /\ LET inputs == [context |-> context_text(context), prompt |-> prompt,
                      chat_history |-> chain.memory]
       IN  chain' = [memory |-> IF reply.ok /\ kept
                                THEN Append(chain.memory,
                                            [input |-> prompt, output |-> reply.kind])
                                ELSE chain.memory,
                     request |-> Append(chain.request,
                                        [prompt |-> prompt, context |-> context]),
                     loaded |-> chain.memory,
                     sent |-> <<format(inputs)>>]
    /\ UNCHANGED <<mounted, now, storeVars, resp, authVars, analyticsVars, sessions>>

ChainInit ==
    /\ mounted = "chain"
    /\ now = 1
    /\ db = [leads |-> NoRows]
    /\ seq = [leads |-> 1]
    /\ docs = {}
    /\ resp = NoResponse
    /\ authIn = [user |-> Users["usr"], required_role |-> "user"]
    /\ authOut = [done |-> FALSE, value |-> FALSE]
    /\ forecast = NoForecast
    /\ recommendations = NoRecommendations
    /\ sessions = NoSessions
    /\ chain = NoChain

ChainNext ==
    \E prompt \in Prompts, context \in Contexts, reply \in TextReplies, kept \in BOOLEAN :
       AIService_generate_content(prompt, context, reply, kept)

SpecChain == ChainInit /\ [][ChainNext]_vars

-----------------------------------------------------------------------------
(* C20 *)
LastRequest == chain.request[Len(chain.request)]

\* C20: requests share no mutable in-process state: a request finds in the
\* process nothing an earlier request wrote, and the prompt and context sent
\* to the gateway depend only on the request's own parameters.
C20_NoSharedProcessState ==
    chain.request # <<>> =>
        /\ chain.loaded = NoChain.memory
        /\ chain.sent = <<[context |-> context_text(LastRequest.context),
                           prompt |-> LastRequest.prompt]>>

\* The second call on the service finds the first call's exchange in the
\* memory it loads, while the prompt it sends is built from its own
\* parameters.
C20_Witness ==
    /\ Len(chain.request) = 2
    /\ chain.request[1].prompt = "prompt1"
    /\ chain.request[2].prompt = "prompt2"
    /\ chain.loaded = <<[input |-> "prompt1", output |-> "prose"]>>
    /\ chain.sent = <<[context |-> "No additional context", prompt |-> "prompt2"]>>

-----------------------------------------------------------------------------
(* C21 *)
StatusTransitions ==
    {<<"draft", "sent">>, <<"sent", "accepted">>, <<"sent", "rejected">>}

\* The document d as a step leaves it: the same document, or the same with
\* its status moved along a transition.
KeptOrTransitioned(d, e) ==
    /\ e._id = d._id
    /\ [e EXCEPT !.status = d.status] = d
    /\ e.status # d.status => <<d.status, e.status>> \in StatusTransitions

\* C21: a stored artifact document (content, proposal, campaign, pipeline,
\* execution record) is never mutated after its insertion except by a status
\* transition along draft, sent, accepted/rejected; proposals are inserted
\* with status draft, and no request changes any other field.
C21_ArtifactsImmutable ==
    [][ /\ \A d \in docs : \E e \in docs' : KeptOrTransitioned(d, e)
        /\ \A e \in docs' \ docs : e.kind = "proposal" => e.status = "draft" ]_vars

\* A proposal inserted with status draft next to a pipeline stored earlier,
\* which is as it was.
C21_Witness ==
    /\ resp.ep = "create_proposal"
    /\ resp.wrote
    /\ \E e \in docs : e.kind = "proposal" /\ e.status = "draft" /\ e.created_at = 1
    /\ \E d \in docs : d.kind = "pipeline" /\ d.created_at = 0

-----------------------------------------------------------------------------
(* C22 *)
\* The step serves an execute_workflow request of an authenticated actor on a
\* workflow that exists and is active.
ExecutesActiveWorkflow ==
    /\ resp'.ep = "execute_workflow"
    /\ Authenticated(resp'.token) = 200
    /\ \E w \in resp'.before : w.is_active

\* C22: each execute_workflow request on an existing active workflow inserts
\* exactly one execution record into the document store, with status
\* completed or failed and never running, whether every action succeeds or an
\* action's gateway call or output parsing fails.
C22_OneExecutionRecord ==
    [][ ExecutesActiveWorkflow =>
          /\ docs \subseteq docs'
          /\ Cardinality(docs' \ docs) = 1
          /\ \A e \in docs' \ docs :
                e.kind = "execution" /\ e.status \in {"completed", "failed"} ]_vars

\* Every action of the workflow ran and the document was built as completed,
\* the request was answered 500 on the unbound name content_generation, and
\* the document store holds nothing.
C22_Witness ==
    /\ resp.ep = "execute_workflow"
    /\ resp.status = 500
    /\ resp.raised = "NameError"
    /\ resp.calls = 3
    /\ resp.built # <<>>
    /\ resp.built[1].status = "completed"
    /\ docs = {}

-----------------------------------------------------------------------------
(* C23 *)
\* The last request ran the try block of execute_workflow: its replies, the
\* actions of the workflow it ran and the document it built.
RanActions == resp.ep = "execute_workflow" /\ resp.built # <<>>
RunReplies == resp.payload
RunWorkflowActions == (CHOOSE w \in resp.before : TRUE).actions
BuiltDoc == resp.built[1]

\* The k-th action's gateway call or the parsing of its text failed.
CallOrParsingFails(k) ==
    ~RunReplies[k + 1].ok \/ RunReplies[k + 1].kind \notin {"json", "number"}

\* The k-th action failed: its call, the parsing, or the lookup of its "id".
ActionFails(k) == CallOrParsingFails(k) \/ RunWorkflowActions[k] = None

\* The actions before the first one for which fails(k) holds.
Before(fails(_)) ==
    { k \in 1 .. Len(RunWorkflowActions) : \A j \in 1 .. k : ~fails(j) }

\* What the claim says of the document when the failures are those of fails.
StopsAtFirst(fails(_)) ==
    /\ BuiltDoc.output_data = { RunWorkflowActions[k] : k \in Before(fails) }
    /\ resp.calls = 1 + Cardinality(Before(fails))
                      + (IF Before(fails) = 1 .. Len(RunWorkflowActions) THEN 0 ELSE 1)
    /\ (BuiltDoc.status = "completed" /\ BuiltDoc.completed_at)
          <=> Before(fails) = 1 .. Len(RunWorkflowActions)
    /\ BuiltDoc.status = "completed"
          => BuiltDoc.error = None
    /\ BuiltDoc.status # "completed"
          => BuiltDoc.status = "failed" /\ BuiltDoc.error # None /\ ~BuiltDoc.completed_at

-----------------------------------------------------------------------------
(* C24 *)
\* The step serves an execute_workflow request of an authenticated actor.
ExecuteRequested ==
    /\ resp'.ep = "execute_workflow"
    /\ Authenticated(resp'.token) = 200

NothingCalledOrStored ==
    /\ resp'.calls = 0
    /\ ~resp'.wrote
    /\ resp'.built = <<>>
    /\ UNCHANGED storeVars

\* C24: execute_workflow on an unknown workflow id ends with 404, and on an
\* existing workflow whose is_active flag is false with 400; in both cases no
\* gateway call is made and no execution record is inserted, and existence is
\* checked before activity.
C24_UnknownOrInactiveWorkflow ==
    [][ ExecuteRequested =>
          /\ Lookup("workflows", resp'.id) = {}
                => resp'.status = 404 /\ NothingCalledOrStored
          /\ (Lookup("workflows", resp'.id) # {} /\ ~db.workflows[resp'.id].is_active)
                => resp'.status = 400 /\ NothingCalledOrStored ]_vars

\* An execution asked of a stored workflow that is not active, refused with
\* 400.
C24_Witness ==
    /\ resp.ep = "execute_workflow"
    /\ resp.status = 400
    /\ resp.id \in DOMAIN db.workflows
    /\ ~db.workflows[resp.id].is_active
    /\ resp.calls = 0
    /\ docs = {}

-----------------------------------------------------------------------------
(* C25 *)
\* C25: get_ai_recommendations completes with a (possibly empty) list of
\* recommendations for an actor of every role and for every store content,
\* including when a list handed to generate_recommendations is empty or all
\* expense amounts are zero.
C25_RecommendationsComplete ==
    recommendations.of \in UserRoles => recommendations.fault = "none"

\* An operations manager asks for the recommendations of a store that holds
\* an employee and a pending invoice: the role is handed no employees and the
\* retention rule divides by their number.
C25_Witness ==
    /\ recommendations.of = "operations_manager"
    /\ db.employees # <<>>
    /\ db.invoices # <<>>
    /\ recommendations.fault = "ZeroDivisionError"
    /\ recommendations.items = <<>>

-----------------------------------------------------------------------------
(* C26 *)
\* The step serves an update_lead request that passed the guard and found
\* its lead.
UpdatesStoredLead ==
    /\ mounted = "crm"
    /\ resp'.ep = "update_lead"
    /\ Guard(resp'.token, "sales") = 200
    /\ Lookup("leads", resp'.id) # {}

MentionsCompanyOrIndustry(payload) ==
    "company" \in DOMAIN payload \/ "industry" \in DOMAIN payload

\* C26: update_lead calls the gateway to re-score the lead if and only if the
\* payload mentions company (or industry); when it does not, no gateway call is
\* made and the stored score is unchanged, and when it does, the stored score
\* after the commit is the value the gateway call returned.
C26_RescoreIffCompanyMentioned ==
    [][ UpdatesStoredLead =>
          /\ resp'.calls = (IF MentionsCompanyOrIndustry(resp'.payload) THEN 1 ELSE 0)
          /\ ~MentionsCompanyOrIndustry(resp'.payload)
                => /\ db'.leads[resp'.id].score = db.leads[resp'.id].score
                   /\ resp'.scored = <<>>
          /\ (MentionsCompanyOrIndustry(resp'.payload) /\ resp'.status = 200)
                => /\ resp'.scored # <<>>
                   /\ db'.leads[resp'.id].score = resp'.scored[1]
                   /\ Head(resp'.order) = "gateway" ]_vars

\* The payload repeats the stored company: the lead is re-scored all the same
\* and the stored score moves from 10 to the returned 42.
C26_Witness ==
    /\ resp.ep = "update_lead"
    /\ resp.status = 200
    /\ resp.payload = [f \in {"company"} |-> "c1"]
    /\ resp.calls = 1
    /\ \A b \in resp.before : b.score = 10 /\ b.company = "c1"
    /\ resp.before # {}
    /\ db.leads[resp.id].score = 42

-----------------------------------------------------------------------------
(* C27 *)
\* The tickets a step adds to the store.
TicketsAdded == { i \in DOMAIN db'.tickets : i \notin DOMAIN db.tickets }

\* The step serves a create_ticket request whose sentiment analysis returned.
CreatesTicketAfterSentiment ==
    /\ mounted = "support"
    /\ resp'.ep = "create_ticket"
    /\ resp'.scored # <<>>

\* C27: create_ticket stores the ticket with priority high whenever the
\* sentiment analysis reports a negative score strictly above 0.7, and with
\* exactly the priority given in the request otherwise.
C27_PriorityFromSentiment ==
    [][ CreatesTicketAfterSentiment =>
          /\ TicketsAdded # {}
          /\ \A i \in TicketsAdded :
                db'.tickets[i].priority =
                   IF resp'.scored[1] > NegativeThreshold THEN "high"
                   ELSE resp'.payload.priority ]_vars

\* A ticket asked with priority low for a stored customer, a negative score
\* of 0.8 returned, and the request answered 500 by the constructor: the
\* store holds no ticket of priority high.
C27_Witness ==
    /\ resp.ep = "create_ticket"
    /\ resp.scored = <<8>>
    /\ resp.payload.priority = "low"
    /\ resp.status = 500
    /\ resp.raised = "TypeError"
    /\ \A i \in DOMAIN db.tickets : db.tickets[i].priority # "high"

-----------------------------------------------------------------------------
(* C28 *)
\* The step serves a create request that reached the handler body and names
\* a parent the store does not hold.
NamesUnknownLead ==
    /\ mounted = "crm"
    /\ resp'.ep = "create_customer"
    /\ Guard(resp'.token, "sales") = 200
    /\ resp'.payload.lead_id \notin DOMAIN db.leads

NamesUnknownCustomer ==
    /\ mounted = "support"
    /\ resp'.ep = "create_ticket"
    /\ Authenticated(resp'.token) = 200
    /\ resp'.payload.customer_id \notin DOMAIN db.customers

\* Every stored child row names a stored parent, after the step.
ParentsStored ==
    /\ mounted = "crm"
          => \A i \in DOMAIN db'.customers : db'.customers[i].lead_id \in DOMAIN db'.leads
    /\ mounted = "support"
          => \A i \in DOMAIN db'.tickets :
                db'.tickets[i].customer_id \in DOMAIN db'.customers

\* C28: each Customer stored through create_customer refers to a stored Lead
\* and each SupportTicket stored through create_ticket to a stored Customer,
\* in every reachable state; a create request naming an unknown parent id ends
\* with 404 and stores nothing.
C28_ParentsExist ==
    [][ /\ ParentsStored
        /\ (NamesUnknownLead \/ NamesUnknownCustomer)
              => resp'.status = 404 /\ resp'.calls = 0 /\ UNCHANGED storeVars ]_vars

\* A customer created from the stored lead 1, after which every customer
\* names a stored lead.
C28_Witness ==
    /\ resp.ep = "create_customer"
    /\ resp.status = 200
    /\ resp.id \in DOMAIN db.customers
    /\ db.customers[resp.id].lead_id = resp.payload.lead_id
    /\ resp.payload.lead_id \in DOMAIN db.leads

-----------------------------------------------------------------------------
(* C29 *)
\* The update and delete endpoints behind check_permissions.
GuardedUpdateOrDelete ==
    {"update_task", "delete_task", "update_lead", "update_ticket", "update_workflow"}

\* C29: in every guarded update and delete endpoint the permission check
\* precedes the existence lookup: an actor who fails the check receives 403
\* for existing and for unknown ids alike, so the response does not depend on
\* whether the id exists.
C29_ForbiddenBeforeLookup ==
    [][ (resp'.ep \in GuardedUpdateOrDelete
           /\ CheckFails(resp'.token, GuardedBy[resp'.ep]))
          => resp' = Response(resp'.ep, resp'.token, 403, "error", 0, resp'.id,
                              NoPayload, {}, FALSE) ]_vars

\* A plain user asks to update a ticket id the store does not hold and is
\* answered 403, not 404.
C29_Witness ==
    /\ resp.ep = "update_ticket"
    /\ CheckFails(resp.token, "support")
    /\ resp.id \notin DOMAIN db.tickets
    /\ resp.status = 403

-----------------------------------------------------------------------------
(* C30 *)
\* The leads a step adds to the store.
LeadsAdded == { i \in DOMAIN db'.leads : i \notin DOMAIN db.leads }

\* The step serves a crm create_lead request that reached the gateway call.
CreatesLeadAfterCall ==
    /\ mounted = "crm"
    /\ resp'.ep = "create_lead"
    /\ resp'.reply # <<>>

\* The reply is text float() accepts.
NumericReply(reply) == reply.ok /\ reply.kind = "number"

\* C30: in crm create_lead, if the gateway call fails or its text cannot be
\* parsed as a number, no lead is added to the store: a lead exists after the
\* request only if a numeric score was obtained, and its stored score equals
\* that number.
C30_LeadOnlyWithNumericScore ==
    [][ CreatesLeadAfterCall =>
          /\ ~NumericReply(resp'.reply[1])
                => /\ LeadsAdded = {}
                   /\ UNCHANGED storeVars
                   /\ resp'.status = 500
          /\ \A i \in LeadsAdded :
                /\ NumericReply(resp'.reply[1])
                /\ db'.leads[i].score = resp'.reply[1].val
                /\ db'.leads[i].email = resp'.payload.email ]_vars

\* The gateway answered with prose: float() raised, the request ended 500 and
\* the leads table has no row for the request's email.
C30_Witness ==
    /\ resp.ep = "create_lead"
    /\ resp.reply # <<>>
    /\ resp.reply[1].kind = "prose"
    /\ resp.raised = "ValueError"
    /\ resp.status = 500
    /\ \A i \in DOMAIN db.leads : db.leads[i].email # resp.payload.email

====
